---- MODULE Spec2Model ----
(***************************************************************************)
(* Resume screening: the scorer (matcher/scorer.py), the job-description   *)
(* analyzer (parsers/jd_parser.py) and the rank step of the run pipelines  *)
(* (main.py, screen.py, app.py).                                           *)
(*                                                                         *)
(* Conventions                                                             *)
(*  - a Python float is an exact rational <<num, den>> in lowest terms,    *)
(*    den > 0; binary rounding error is not modelled;                      *)
(*  - a value reported as round(x * 100, 2) is an integer number of        *)
(*    hundredths (100.0 is 10000, 33.33 is 3333); where x * 100 lies       *)
(*    exactly half way between two hundredths the float decides the        *)
(*    direction, so both neighbours are possible outcomes;                 *)
(*  - a dict is a function whose DOMAIN is its set of keys; a list that    *)
(*    the code only turns into a set is a set; a list whose duplicates     *)
(*    count is a sequence;                                                 *)
(*  - a text is a sequence of tokens (words, numbers, punctuation).        *)
(***************************************************************************)
EXTENDS Integers, Sequences, FiniteSets, TLC

VARIABLES
    config,          \* ResumeScorer.config
    weights,         \* ResumeScorer.weights
    jd_data,         \* the parsed job description handed to score_resume
    call,            \* the operation in progress / just returned: op, arguments, locals, result
    scored_resumes,  \* run(): the list of scored resumes
    ranked_resumes,  \* run(): the list after the rank step
    skills_taxonomy, \* KeywordExtractor.skills_taxonomy
    pc,              \* run() / screen_resumes(): the step the run is at, or how it ended
    run,             \* run() / screen_resumes(): the arguments and the files they name
    resumes,         \* run(): the loaded resumes
    top_resumes,     \* run(): the first top_n ranked resumes
    output,          \* the result file
    temp_files       \* the converted .docx files that exist in temporary directories

extractor_vars == <<skills_taxonomy>>
run_vars == <<pc, run, resumes, top_resumes, output>>
parser_vars == <<temp_files>>

vars == <<config, weights, jd_data, call, scored_resumes, ranked_resumes,
          skills_taxonomy, pc, run, resumes, top_resumes, output, temp_files>>

----------------------------------------------------------------------------
(* Bounds *)

MaxExperience == 6       \* years of experience range over 0..MaxExperience
MaxTolerance == 2        \* configured experience_tolerance ranges over 0..MaxTolerance
MaxKeywords == 6         \* longest resume keyword list given to _calculate_keyword_match
MaxResumeKeywords == 2   \* longest resume keyword list given to score_resume
MaxResumes == 3          \* longest list of scored resumes
MaxFiles == 2            \* most files in a resume directory
MaxLines == 2            \* most lines in a JSONL file
MaxSegments == 2         \* most sentences in a text given to the extractor

----------------------------------------------------------------------------
(* Rationals *)

Abs(x) == IF x < 0 THEN -x ELSE x

RECURSIVE GCD(_, _)
GCD(a, b) == IF b = 0 THEN a ELSE GCD(b, a % b)

Rat(n, d) ==
    LET g == GCD(Abs(n), d)
    IN  <<n \div g, d \div g>>

Zero == <<0, 1>>
One == <<1, 1>>

RAdd(a, b) == Rat(a[1] * b[2] + b[1] * a[2], a[2] * b[2])
RSub(a, b) == Rat(a[1] * b[2] - b[1] * a[2], a[2] * b[2])
RMul(a, b) == Rat(a[1] * b[1], a[2] * b[2])
RLeq(a, b) == a[1] * b[2] <= b[1] * a[2]
RLt(a, b) == a[1] * b[2] < b[1] * a[2]
RMax(a, b) == IF RLeq(a, b) THEN b ELSE a
RMin(a, b) == IF RLeq(a, b) THEN a ELSE b

(* round(x * 100, 2) in hundredths: the integers k with |k - 10000 x| <= 1/2 *)
(* (one integer, or the two neighbours of an exact tie).                   *)
Round2(x) ==
    LET lo == (10000 * x[1]) \div x[2]
    IN  {k \in {lo, lo + 1} : 2 * Abs(k * x[2] - 10000 * x[1]) <= x[2]}

----------------------------------------------------------------------------
(* Strings: str.lower() on the vocabulary of the model *)

LowerMap ==
    [s \in {"Java", "Spring", "MySQL", "Docker", "Kubernetes",
            "Required", "Preferred", "Minimum", "Agile", "Present", "Current",
            ".PDF", ".TXT", "Boot"} |->
        CASE s = "Java" -> "java"
          [] s = "Spring" -> "spring"
          [] s = "MySQL" -> "mysql"
          [] s = "Docker" -> "docker"
          [] s = "Kubernetes" -> "kubernetes"
          [] s = "Required" -> "required"
          [] s = "Preferred" -> "preferred"
          [] s = "Minimum" -> "minimum"
          [] s = "Agile" -> "agile"
          [] s = "Present" -> "present"
          [] s = "Current" -> "current"
          [] s = ".PDF" -> ".pdf"
          [] s = ".TXT" -> ".txt"
          [] s = "Boot" -> "boot"]

lower(s) == IF s \in DOMAIN LowerMap THEN LowerMap[s] ELSE s

(* dict.get(key, default) *)
Get(d, key, default) == IF key \in DOMAIN d THEN d[key] ELSE default

----------------------------------------------------------------------------
(* ResumeScorer: configuration *)

DefaultWeights ==
    [required_skills |-> 50, preferred_skills |-> 25,
     experience |-> 15, keyword_density |-> 10]          \* in hundredths

DefaultConfig ==
    [weights |-> DefaultWeights, min_score |-> 0, experience_tolerance |-> 2]

(* The dictionaries a configuration file can hold *)
AltWeights ==
    {[required_skills |-> 25, preferred_skills |-> 25,
      experience |-> 25, keyword_density |-> 25],
     [required_skills |-> 100, preferred_skills |-> 0,
      experience |-> 0, keyword_density |-> 0]}

Configs ==
    {[weights |-> DefaultWeights, min_score |-> 0, experience_tolerance |-> t] :
        t \in 0..MaxTolerance}
    \cup {[weights |-> w, min_score |-> 0, experience_tolerance |-> 2] : w \in AltWeights}
    \cup {[min_score |-> 0]}

(* what ResumeScorer(config_path) is given: no path, a path that cannot be *)
(* opened or parsed, or a file holding a dictionary                        *)
ConfigSources ==
    {[kind |-> "none"], [kind |-> "unreadable"]}
    \cup {[kind |-> "json", value |-> c] : c \in Configs}

(* json.load returns whatever the file holds.  A well-formed JSON value that *)
(* is not an object (a list, a number, a string, null) is NotAnObject: it  *)
(* has no get method.                                                      *)
NotAnObject == [json_value |-> "[]"]
IsObject(value) == value # NotAnObject

WeightKeys == {"required_skills", "preferred_skills", "experience", "keyword_density"}

(* objects that lack a weight key, the weights, the tolerance or all keys, *)
(* and objects with a negative tolerance                                   *)
PartialConfigs ==
    {[weights |-> [required_skills |-> 50, preferred_skills |-> 25, experience |-> 25],
      min_score |-> 0, experience_tolerance |-> 2],
     [weights |-> [keyword_density |-> 100], min_score |-> 0, experience_tolerance |-> 2],
     [weights |-> DefaultWeights, min_score |-> 0],
     [weights |-> DefaultWeights, experience_tolerance |-> 1],
     [key \in {} |-> 0]}

IntegerTolerances == (0 - MaxTolerance - 1)..(MaxTolerance + 1)

ToleranceConfigs ==
    {[weights |-> DefaultWeights, min_score |-> 0, experience_tolerance |-> t] :
        t \in IntegerTolerances}

AllConfigSources ==
    ConfigSources
    \cup {[kind |-> "malformed"]}
    \cup {[kind |-> "json", value |-> c] :
            c \in PartialConfigs \cup ToleranceConfigs \cup {NotAnObject}}

load_config(source) ==
    IF source.kind = "json" THEN source.value ELSE DefaultConfig

(* ResumeScorer.__init__ calls self.config.get: the exception it raises, *)
(* or "none"                                                              *)
init_raises(cfg) == IF IsObject(cfg) THEN "none" ELSE "AttributeError"

init_weights(cfg) == Get(cfg, "weights", DefaultWeights)

----------------------------------------------------------------------------
(* ResumeScorer: component scores *)


(* variants of the code with one plausible fault each *)
skill_match_no_vacuous(resume_skills, jd_skills) ==
    IF jd_skills = {}
    THEN Zero
    ELSE Rat(Cardinality(resume_skills \cap jd_skills), Cardinality(jd_skills))

skill_match_over_resume(resume_skills, jd_skills) ==
    IF jd_skills = {}
    THEN One
    ELSE Rat(Cardinality(resume_skills \cap jd_skills),
             Cardinality(resume_skills \cup jd_skills))

calculate_skill_match(resume_skills, jd_skills) ==
    IF jd_skills = {}
    THEN One
    ELSE LET matched_skills == resume_skills \cap jd_skills
         IN  Rat(Cardinality(matched_skills), Cardinality(jd_skills))


experience_match_gap_from_band_edge(cfg, resume_exp, required_exp) ==
    IF required_exp = 0
    THEN One
    ELSE LET tolerance == Get(cfg, "experience_tolerance", 2)
         IN  IF resume_exp >= required_exp
             THEN One
             ELSE IF resume_exp >= required_exp - tolerance
                  THEN RMax(Rat(7, 10),
                            RSub(One, RMul(Rat(resume_exp - (required_exp - tolerance),
                                               tolerance + 1),
                                           Rat(3, 10))))
                  ELSE RMax(Zero, RMul(Rat(resume_exp, required_exp), Rat(7, 10)))

experience_match_open_band(cfg, resume_exp, required_exp) ==
    IF required_exp = 0
    THEN One
    ELSE LET tolerance == Get(cfg, "experience_tolerance", 2)
         IN  IF resume_exp >= required_exp
             THEN One
             ELSE IF resume_exp > required_exp - tolerance
                  THEN RMax(Rat(7, 10),
                            RSub(One, RMul(Rat(required_exp - resume_exp, tolerance + 1),
                                           Rat(3, 10))))
                  ELSE RMax(Zero, RMul(Rat(resume_exp, required_exp), Rat(7, 10)))

calculate_experience_match(cfg, resume_exp, required_exp) ==
    IF required_exp = 0
    THEN One
    ELSE LET tolerance == Get(cfg, "experience_tolerance", 2)
         IN  IF resume_exp >= required_exp
             THEN One
             ELSE IF resume_exp >= required_exp - tolerance
                  THEN LET gap == required_exp - resume_exp
                           score == RSub(One, RMul(Rat(gap, tolerance + 1), Rat(3, 10)))
                       IN  RMax(Rat(7, 10), score)
                  ELSE LET ratio == IF required_exp > 0
                                    THEN Rat(resume_exp, required_exp)
                                    ELSE Zero
                       IN  RMax(Zero, RMul(ratio, Rat(7, 10)))

RECURSIVE CountIn(_, _)
CountIn(kws, s) ==
    IF kws = <<>>
    THEN 0
    ELSE (IF lower(Head(kws)) \in s THEN 1 ELSE 0) + CountIn(Tail(kws), s)


keyword_match_uncapped(resume_keywords, jd_keywords) ==
    IF jd_keywords = {}
    THEN One
    ELSE LET jd_keyword_set == {lower(kw) : kw \in jd_keywords}
             matched_keywords ==
                 {lower(resume_keywords[i]) : i \in DOMAIN resume_keywords} \cap jd_keyword_set
             frequency_bonus ==
                 IF resume_keywords # <<>>
                 THEN RMin(Rat(1, 5),
                           Rat(CountIn(resume_keywords, jd_keyword_set), Len(resume_keywords)))
                 ELSE Zero
         IN  RAdd(Rat(Cardinality(matched_keywords), Cardinality(jd_keyword_set)),
                  frequency_bonus)

calculate_keyword_match(resume_keywords, jd_keywords) ==
    IF jd_keywords = {}
    THEN One
    ELSE LET resume_keyword_set == {lower(resume_keywords[i]) : i \in DOMAIN resume_keywords}
             jd_keyword_set == {lower(kw) : kw \in jd_keywords}
             matched_keywords == resume_keyword_set \cap jd_keyword_set
             match_ratio == Rat(Cardinality(matched_keywords), Cardinality(jd_keyword_set))
             frequency_bonus ==
                 IF resume_keywords # <<>>
                 THEN RMin(Rat(1, 5),
                           Rat(CountIn(resume_keywords, jd_keyword_set), Len(resume_keywords)))
                 ELSE Zero
         IN  RMin(One, RAdd(match_ratio, frequency_bonus))

(* Divisions.  Each operator tells whether a division of the function is *)
(* reached with a zero divisor (ZeroDivisionError).                        *)

(* line 110: len(matched_skills) / len(jd_skills) *)
skill_match_raises(resume_skills, jd_skills) ==
    /\ jd_skills # {}
    /\ Cardinality(jd_skills) = 0


experience_raises_without_full_check(cfg, resume_exp, required_exp) ==
    LET tolerance == Get(cfg, "experience_tolerance", 2)
    IN  /\ required_exp # 0
        /\ resume_exp >= required_exp - tolerance
        /\ tolerance + 1 = 0

(* line 137: gap / (tolerance + 1); line 141 divides only if required_exp > 0 *)
experience_match_raises(cfg, resume_exp, required_exp) ==
    LET tolerance == Get(cfg, "experience_tolerance", 2)
    IN  /\ required_exp # 0
        /\ ~(resume_exp >= required_exp)
        /\ \/ /\ resume_exp >= required_exp - tolerance
              /\ tolerance + 1 = 0
           \/ /\ ~(resume_exp >= required_exp - tolerance)
              /\ required_exp > 0
              /\ required_exp = 0

(* line 167: / len(jd_keyword_set); line 173: / len(resume_keywords) *)
keyword_match_raises(resume_keywords, jd_keywords) ==
    /\ jd_keywords # {}
    /\ LET jd_keyword_set == {lower(kw) : kw \in jd_keywords}
       IN  /\ jd_keyword_set # {}
           /\ \/ Cardinality(jd_keyword_set) = 0
              \/ resume_keywords # <<>> /\ Len(resume_keywords) = 0

(* the exception score_resume raises, or "none": the component scores are *)
(* computed first, the weights are looked up after them                  *)
score_raises(cfg, w, resume_skills, resume_experience, resume_keywords, jd) ==
    LET jd_required == {lower(skill) : skill \in Get(jd, "required_skills", {})}
        jd_preferred == {lower(skill) : skill \in Get(jd, "preferred_skills", {})}
    IN  IF \/ skill_match_raises(resume_skills, jd_required)
           \/ skill_match_raises(resume_skills, jd_preferred)
           \/ experience_match_raises(cfg, resume_experience, Get(jd, "min_experience", 0))
           \/ keyword_match_raises(resume_keywords, Get(jd, "keywords", {}))
        THEN "ZeroDivisionError"
        ELSE IF WeightKeys \subseteq DOMAIN w THEN "none" ELSE "KeyError"


score_locals_no_keyword_weight(cfg, w, resume_skills, resume_experience, resume_keywords, jd) ==
    LET jd_required == {lower(skill) : skill \in Get(jd, "required_skills", {})}
        jd_preferred == {lower(skill) : skill \in Get(jd, "preferred_skills", {})}
        required_score == calculate_skill_match(resume_skills, jd_required)
        preferred_score == calculate_skill_match(resume_skills, jd_preferred)
        experience_score ==
            calculate_experience_match(cfg, resume_experience, Get(jd, "min_experience", 0))
        keyword_score == calculate_keyword_match(resume_keywords, Get(jd, "keywords", {}))
    IN  [jd_required |-> jd_required, jd_preferred |-> jd_preferred,
         jd_min_exp |-> Get(jd, "min_experience", 0),
         required_score |-> required_score, preferred_score |-> preferred_score,
         experience_score |-> experience_score, keyword_score |-> keyword_score,
         total_score |->
            RAdd(RAdd(RMul(required_score, Rat(w.required_skills, 100)),
                      RMul(preferred_score, Rat(w.preferred_skills, 100))),
                 RMul(experience_score, Rat(w.experience, 100)))]

(* score_resume up to the weighted total: the locals of the function *)
score_locals(cfg, w, resume_skills, resume_experience, resume_keywords, jd) ==
    LET jd_required == {lower(skill) : skill \in Get(jd, "required_skills", {})}
        jd_preferred == {lower(skill) : skill \in Get(jd, "preferred_skills", {})}
        jd_keywords == Get(jd, "keywords", {})
        jd_min_exp == Get(jd, "min_experience", 0)
        required_score == calculate_skill_match(resume_skills, jd_required)
        preferred_score == calculate_skill_match(resume_skills, jd_preferred)
        experience_score == calculate_experience_match(cfg, resume_experience, jd_min_exp)
        keyword_score == calculate_keyword_match(resume_keywords, jd_keywords)
        total_score ==
            RAdd(RAdd(RMul(required_score, Rat(w.required_skills, 100)),
                      RMul(preferred_score, Rat(w.preferred_skills, 100))),
                 RAdd(RMul(experience_score, Rat(w.experience, 100)),
                      RMul(keyword_score, Rat(w.keyword_density, 100))))
    IN  [jd_required |-> jd_required, jd_preferred |-> jd_preferred,
         jd_min_exp |-> jd_min_exp,
         required_score |-> required_score, preferred_score |-> preferred_score,
         experience_score |-> experience_score, keyword_score |-> keyword_score,
         total_score |-> total_score]


score_returns_missing_swapped(l, resume_skills, resume_experience) ==
    {[total_score |-> t, required_skills_score |-> r, preferred_skills_score |-> p,
      experience_score |-> e, keyword_score |-> k,
      matched_required_skills |-> resume_skills \cap l.jd_required,
      matched_preferred_skills |-> resume_skills \cap l.jd_preferred,
      missing_required_skills |-> resume_skills \ l.jd_required,
      resume_experience |-> resume_experience,
      required_experience |-> l.jd_min_exp] :
        t \in Round2(l.total_score), r \in Round2(l.required_score),
        p \in Round2(l.preferred_score), e \in Round2(l.experience_score),
        k \in Round2(l.keyword_score)}

(* the dictionaries score_resume can return for these locals *)
score_returns(l, resume_skills, resume_experience) ==
    {[total_score |-> t, required_skills_score |-> r, preferred_skills_score |-> p,
      experience_score |-> e, keyword_score |-> k,
      matched_required_skills |-> resume_skills \cap l.jd_required,
      matched_preferred_skills |-> resume_skills \cap l.jd_preferred,
      missing_required_skills |-> l.jd_required \ resume_skills,
      resume_experience |-> resume_experience,
      required_experience |-> l.jd_min_exp] :
        t \in Round2(l.total_score), r \in Round2(l.required_score),
        p \in Round2(l.preferred_score), e \in Round2(l.experience_score),
        k \in Round2(l.keyword_score)}

----------------------------------------------------------------------------
(* JDParser.  A text is a sequence of tokens: a maximal run of word        *)
(* characters, a single punctuation character, or "\n".  White space       *)
(* separates two tokens unless the second is punctuation, so <<"java",     *)
(* ",", "spring">> is "java, spring".  Heading phrases and skill           *)
(* alternatives are token sequences; the alternatives of skill_patterns    *)
(* that contain punctuation (c++, c#, .net, ci/cd, ...) are not words of   *)
(* such texts and are left out.                                            *)

Punctuation == {":", ",", ".", "+", "-"}
NL == "\n"

NumValue ==
    [t \in {"0", "1", "2", "3", "4", "5", "6", "7", "8", "9", "10", "11"} |->
        CASE t = "0" -> 0 [] t = "1" -> 1 [] t = "2" -> 2 [] t = "3" -> 3
          [] t = "4" -> 4 [] t = "5" -> 5 [] t = "6" -> 6 [] t = "7" -> 7
          [] t = "8" -> 8 [] t = "9" -> 9 [] t = "10" -> 10 [] t = "11" -> 11]

IsNum(t) == t \in DOMAIN NumValue

text_lower(text) == [i \in DOMAIN text |-> lower(text[i])]

required_keywords ==
    <<<<"required">>, <<"must", "have">>, <<"mandatory">>, <<"essential">>,
      <<"required", "skills">>, <<"requirements">>, <<"must", "possess">>,
      <<"key", "requirements">>, <<"core", "skills">>, <<"minimum", "qualifications">>,
      <<"basic", "qualifications">>, <<"what", "you", "need">>, <<"what", "we", "need">>,
      <<"you", "must", "have">>, <<"you", "should", "have">>, <<"necessary", "skills">>,
      <<"technical", "requirements">>, <<"hard", "requirements">>, <<"non-negotiable">>,
      <<"qualifications", "required">>, <<"skills", "required">>, <<"expected", "skills">>,
      <<"we", "are", "looking", "for">>, <<"we", "expect">>, <<"you", "will", "need">>>>

preferred_keywords ==
    <<<<"preferred">>, <<"nice", "to", "have">>, <<"desired">>, <<"plus">>,
      <<"preferred", "skills">>, <<"bonus">>, <<"advantage">>, <<"good", "to", "have">>,
      <<"additional", "skills">>, <<"preferred", "qualifications">>, <<"a", "plus">>,
      <<"ideal", "candidate">>, <<"would", "be", "nice">>, <<"beneficial">>,
      <<"extra", "credit">>, <<"not", "required", "but">>, <<"optional">>,
      <<"added", "advantage">>, <<"brownie", "points">>, <<"icing", "on", "the", "cake">>,
      <<"it", "would", "be", "great", "if">>, <<"even", "better", "if">>, <<"extra", "skills">>>>

experience_patterns ==
    <<<<"N", "+?", "Y", "..exp">>,
      <<"exp..", "N", "+?", "Y">>,
      <<"minimum", "N", "Y">>,
      <<"at", "least", "N", "Y">>,
      <<"N", "-", "n", "Y">>,
      <<"N", "to", "n", "Y">>,
      <<"over", "N", "Y">>,
      <<"more", "than", "N", "Y">>,
      <<"N", "+", "Y">>,
      <<"around", "N", "Y">>>>

(* words of the vocabulary that (?:years?|yrs?) and (?:experience|exp)     *)
(* match; neither is anchored, so a word only has to contain them          *)
YearWords == {"year", "years", "yr", "yrs"}
ExpWords == {"experience", "exp", "experienced", "expert", "expertise"}

MatchesAt(text, i, phrase) ==
    /\ i >= 1
    /\ i + Len(phrase) - 1 <= Len(text)
    /\ \A k \in 1..Len(phrase) : text[i + k - 1] = phrase[k]

Min(S) == CHOOSE x \in S : \A y \in S : x <= y

(* index of the first entry of a sequence of phrases that matches at i, 0 if none *)
FirstMatch(text, i, phrases) ==
    LET hits == {a \in 1..Len(phrases) : MatchesAt(text, i, phrases[a])}
    IN  IF hits = {} THEN 0 ELSE Min(hits)

RECURSIVE MatchItems(_, _, _, _)
RECURSIVE LazySkip(_, _, _, _)

(* the position after the match of shape[k..] at i, or 0 *)
MatchItems(text, i, shape, k) ==
    IF k > Len(shape)
    THEN i
    ELSE LET item == shape[k]
         IN  CASE item = "+?" ->
                    IF i <= Len(text) /\ text[i] = "+"
                    THEN MatchItems(text, i + 1, shape, k + 1)
                    ELSE MatchItems(text, i, shape, k + 1)
               [] item = "..exp" -> LazySkip(text, i, shape, k)
               [] item = "exp.." ->
                    IF i <= Len(text) /\ text[i] \in ExpWords
                    THEN LazySkip(text, i + 1, shape, k)
                    ELSE 0
               [] OTHER ->
                    IF i > Len(text)
                    THEN 0
                    ELSE IF \/ item \in {"N", "n"} /\ IsNum(text[i])
                            \/ item = "Y" /\ text[i] \in YearWords
                            \/ item \notin {"N", "n", "Y"} /\ text[i] = item
                         THEN MatchItems(text, i + 1, shape, k + 1)
                         ELSE 0

(* the lazy .*? of an experience pattern: the position after the match of *)
(* the rest of the shape at the first place of this line where it matches, *)
(* or 0                                                                    *)
LazySkip(text, i, shape, k) ==
    IF i > Len(text)
    THEN 0
    ELSE IF shape[k] = "..exp"
         THEN IF text[i] \in ExpWords
              THEN i + 1
              ELSE IF text[i] = NL THEN 0 ELSE LazySkip(text, i + 1, shape, k)
         ELSE LET e == MatchItems(text, i, shape, k + 1)
              IN  IF e # 0
                  THEN e
                  ELSE IF text[i] = NL THEN 0 ELSE LazySkip(text, i + 1, shape, k)

(* the captured number of a match of shape that starts at i and ends before e *)
CapturedAt(text, i, shape) ==
    IF shape[1] = "exp.."
    THEN LET starts == {p \in i + 1..Len(text) :
                            MatchItems(text, p, SubSeq(shape, 2, Len(shape)), 1) # 0}
         IN  NumValue[text[Min(starts)]]
    ELSE LET k == CHOOSE j \in 1..Len(shape) : shape[j] = "N"
             skipped == Cardinality({j \in 1..k - 1 : shape[j] = "+?"})
         IN  NumValue[text[i + k - 1 - skipped]]

(* re.finditer(pattern, text): the captured numbers of the successive      *)
(* non-overlapping matches                                                 *)
RECURSIVE FindYears(_, _, _)
FindYears(text, i, shape) ==
    IF i > Len(text)
    THEN {}
    ELSE LET e == MatchItems(text, i, shape, 1)
         IN  IF e = 0
             THEN FindYears(text, i + 1, shape)
             ELSE {CapturedAt(text, i, shape)} \cup FindYears(text, e, shape)

extract_experience(text) ==
    LET years == UNION {FindYears(text, 1, experience_patterns[p]) :
                            p \in DOMAIN experience_patterns}
    IN  IF years # {} THEN Min(years) ELSE 0

(* one rf'{keyword}[:\s]+(.*?)(?={stops}|$)' search: the captured tokens   *)
(* of the leftmost match, or <<>> without a match                          *)
RECURSIVE SkipColons(_, _)
SkipColons(text, i) ==
    IF i <= Len(text) /\ text[i] = ":" THEN SkipColons(text, i + 1) ELSE i

SectionCapture(text, keyword, stops) ==
    LET heads == {i \in 1..Len(text) :
                    /\ MatchesAt(text, i, keyword)
                    /\ i + Len(keyword) <= Len(text)
                    /\ text[i + Len(keyword)] \notin Punctuation \ {":"}}
    IN  IF heads = {}
        THEN <<>>
        ELSE LET start == SkipColons(text, Min(heads) + Len(keyword))
                 ends == {e \in start..Len(text) : FirstMatch(text, e, stops) # 0}
                 end == IF ends = {} THEN Len(text) + 1 ELSE Min(ends)
             IN  SubSeq(text, start, end - 1)

RECURSIVE ConcatCaptures(_, _, _, _)
ConcatCaptures(text, keywords, stops, k) ==
    IF k > Len(keywords)
    THEN <<>>
    ELSE SectionCapture(text, keywords[k], stops) \o ConcatCaptures(text, keywords, stops, k + 1)


split_sections_no_stop(text) ==
    <<ConcatCaptures(text, required_keywords, <<>>, 1),
      ConcatCaptures(text, preferred_keywords, <<>>, 1)>>

split_sections(text) ==
    <<ConcatCaptures(text, required_keywords, preferred_keywords, 1),
      ConcatCaptures(text, preferred_keywords, required_keywords, 1)>>

skill_patterns ==
    <<<<<<"java">>, <<"python">>, <<"javascript">>, <<"typescript">>, <<"c">>, <<"ruby">>,
        <<"php">>, <<"go">>, <<"golang">>, <<"rust">>, <<"swift">>, <<"kotlin">>, <<"scala">>,
        <<"perl">>, <<"r">>, <<"matlab">>, <<"vba">>, <<"bash">>, <<"shell">>, <<"powershell">>>>,
      <<<<"spring">>, <<"spring", "boot">>, <<"springboot">>, <<"spring", "mvc">>,
        <<"springmvc">>, <<"spring", "cloud">>, <<"springcloud">>, <<"hibernate">>, <<"jpa">>,
        <<"jdbc">>, <<"j2ee">>, <<"jee">>, <<"java", "ee">>, <<"javaee">>, <<"servlets">>,
        <<"jsp">>, <<"jsf">>, <<"struts">>, <<"maven">>, <<"gradle">>, <<"tomcat">>,
        <<"jboss">>, <<"wildfly">>, <<"weblogic">>, <<"websphere">>>>,
      <<<<"django">>, <<"flask">>, <<"fastapi">>, <<"pandas">>, <<"numpy">>, <<"scipy">>,
        <<"tensorflow">>, <<"pytorch">>, <<"keras">>, <<"sklearn">>, <<"celery">>, <<"asyncio">>>>,
      <<<<"react">>, <<"reactjs">>, <<"angular">>, <<"angularjs">>, <<"vue">>, <<"vuejs">>,
        <<"nextjs">>, <<"nuxt">>, <<"svelte">>, <<"ember">>, <<"backbone">>, <<"jquery">>,
        <<"redux">>, <<"mobx">>, <<"webpack">>, <<"babel">>, <<"vite">>, <<"npm">>, <<"yarn">>,
        <<"pnpm">>>>,
      <<<<"nodejs">>, <<"expressjs">>, <<"express">>, <<"nestjs">>, <<"nestjs">>, <<"rails">>,
        <<"ruby", "on", "rails">>, <<"rubyonrails">>, <<"laravel">>, <<"symfony">>,
        <<"codeigniter">>, <<"gin">>, <<"echo">>, <<"fiber">>>>,
      <<<<"mysql">>, <<"postgresql">>, <<"postgres">>, <<"mongodb">>, <<"mongo">>,
        <<"oracle">>, <<"sql", "server">>, <<"sqlserver">>, <<"mssql">>, <<"sqlite">>,
        <<"redis">>, <<"cassandra">>, <<"dynamodb">>, <<"couchdb">>, <<"mariadb">>,
        <<"neo4j">>, <<"elasticsearch">>, <<"elastic">>>>,
      <<<<"sql">>, <<"nosql">>, <<"plsql">>, <<"rdbms">>, <<"database">>>>,
      <<<<"aws">>, <<"amazon", "web", "services">>, <<"amazonwebservices">>, <<"azure">>,
        <<"microsoft", "azure">>, <<"microsoftazure">>, <<"gcp">>, <<"google", "cloud">>,
        <<"googlecloud">>, <<"cloud">>, <<"heroku">>, <<"digitalocean">>, <<"linode">>,
        <<"vercel">>, <<"netlify">>>>,
      <<<<"ec2">>, <<"s3">>, <<"lambda">>, <<"rds">>, <<"dynamodb">>, <<"sqs">>, <<"sns">>,
        <<"cloudfront">>, <<"cloudwatch">>, <<"ecs">>, <<"eks">>, <<"fargate">>,
        <<"api", "gateway">>, <<"apigateway">>, <<"cognito">>, <<"iam">>>>,
      <<<<"docker">>, <<"kubernetes">>, <<"k8s">>, <<"jenkins">>, <<"git">>, <<"github">>,
        <<"gitlab">>, <<"bitbucket">>, <<"cicd">>, <<"terraform">>, <<"ansible">>,
        <<"puppet">>, <<"chef">>, <<"vagrant">>, <<"helm">>, <<"argocd">>>>,
      <<<<"html5">>, <<"html">>, <<"css3">>, <<"css">>, <<"sass">>, <<"scss">>, <<"less">>,
        <<"tailwind">>, <<"bootstrap">>, <<"xml">>, <<"json">>, <<"yaml">>, <<"rest">>,
        <<"restful">>, <<"soap">>, <<"graphql">>, <<"api">>, <<"apis">>, <<"microservices">>>>,
      <<<<"kafka">>, <<"rabbitmq">>, <<"activemq">>, <<"sqs">>, <<"redis">>, <<"celery">>,
        <<"zeromq">>, <<"pulsar">>>>,
      <<<<"junit">>, <<"testng">>, <<"mockito">>, <<"jest">>, <<"mocha">>, <<"chai">>,
        <<"cypress">>, <<"selenium">>, <<"pytest">>, <<"unittest">>, <<"rspec">>,
        <<"jasmine">>, <<"karma">>, <<"protractor">>>>,
      <<<<"jira">>, <<"confluence">>, <<"trello">>, <<"asana">>, <<"slack">>, <<"teams">>,
        <<"notion">>, <<"monday">>>>,
      <<<<"agile">>, <<"scrum">>, <<"kanban">>, <<"waterfall">>, <<"tdd">>, <<"bdd">>,
        <<"ddd">>, <<"lean">>, <<"xp">>, <<"extreme", "programming">>,
        <<"extremeprogramming">>, <<"devops">>, <<"devsecops">>>>,
      <<<<"hadoop">>, <<"spark">>, <<"hive">>, <<"pig">>, <<"airflow">>, <<"etl">>,
        <<"data", "warehouse">>, <<"datawarehouse">>, <<"snowflake">>, <<"redshift">>,
        <<"bigquery">>, <<"tableau">>, <<"power", "bi">>, <<"powerbi">>, <<"looker">>>>,
      <<<<"android">>, <<"ios">>, <<"react", "native">>, <<"reactnative">>, <<"flutter">>,
        <<"xamarin">>, <<"ionic">>, <<"swift">>, <<"kotlin">>>>,
      <<<<"oauth">>, <<"jwt">>, <<"ssl">>, <<"tls">>, <<"https">>, <<"encryption">>,
        <<"security">>, <<"owasp">>, <<"penetration">>, <<"vulnerability">>>>,
      <<<<"prometheus">>, <<"grafana">>, <<"elk">>, <<"splunk">>, <<"datadog">>,
        <<"newrelic">>, <<"dynatrace">>, <<"logstash">>, <<"kibana">>>>,
      <<<<"git">>, <<"svn">>, <<"subversion">>, <<"mercurial">>, <<"github">>, <<"gitlab">>,
        <<"bitbucket">>>>,
      <<<<"mvc">>, <<"mvvm">>, <<"mvp">>, <<"clean", "architecture">>, <<"cleanarchitecture">>,
        <<"hexagonal">>, <<"cqrs">>, <<"event", "sourcing">>, <<"eventsourcing">>, <<"saga">>,
        <<"domain", "driven">>, <<"domaindriven">>>>>>

normalize_skill(skill) ==
    CASE skill = "reactjs" -> "react"
      [] skill = "vuejs" -> "vue"
      [] skill = "angularjs" -> "angular"
      [] skill = "golang" -> "go"
      [] skill = "postgres" -> "postgresql"
      [] skill = "mongo" -> "mongodb"
      [] skill = "k8s" -> "kubernetes"
      [] skill = "amazon web services" -> "aws"
      [] skill = "microsoft azure" -> "azure"
      [] skill = "google cloud" -> "gcp"
      [] skill = "mssql" -> "sql server"
      [] OTHER -> lower(skill)

RECURSIVE Join(_)
Join(phrase) ==
    IF Len(phrase) = 1 THEN phrase[1] ELSE phrase[1] \o " " \o Join(Tail(phrase))

(* re.finditer of one skill pattern: the texts of its successive matches *)
RECURSIVE FindSkills(_, _, _)
FindSkills(text, i, pattern) ==
    IF i > Len(text)
    THEN {}
    ELSE LET a == FirstMatch(text, i, pattern)
         IN  IF a = 0
             THEN FindSkills(text, i + 1, pattern)
             ELSE {Join(pattern[a])} \cup FindSkills(text, i + Len(pattern[a]), pattern)

extract_skills(text) ==
    {normalize_skill(skill) :
        skill \in UNION {FindSkills(text, 1, skill_patterns[p]) : p \in DOMAIN skill_patterns}}

(* _extract_keywords: cap_pattern needs an upper-case letter and is        *)
(* matched without IGNORECASE; version_pattern is a run of letters         *)
(* followed by a number                                                    *)
IsCapitalized(t) ==
    t \in {"Java", "Spring", "Docker", "Kubernetes", "Required", "Preferred", "Minimum", "Agile",
           "Present", "Current", "Boot"}
VersionWords == {"html5", "css3", "s3", "ec2"}
IsWord(t) == t \notin Punctuation /\ t # NL /\ ~IsNum(t)
CommonWords == {"the", "and", "for", "with", "this", "that"}

(* the maximal runs of capitalized words that start at i *)
RECURSIVE CapRunEnd(_, _)
CapRunEnd(text, i) ==
    IF i + 1 <= Len(text) /\ IsCapitalized(text[i + 1]) THEN CapRunEnd(text, i + 1) ELSE i

RECURSIVE FindCapitalized(_, _)
FindCapitalized(text, i) ==
    IF i > Len(text)
    THEN {}
    ELSE IF IsCapitalized(text[i])
         THEN LET e == CapRunEnd(text, i)
              IN  {Join(text_lower(SubSeq(text, i, e)))} \cup FindCapitalized(text, e + 1)
         ELSE FindCapitalized(text, i + 1)

RECURSIVE FindVersions(_, _)
FindVersions(text, i) ==
    IF i + 1 > Len(text)
    THEN {}
    ELSE IF IsWord(text[i]) /\ IsNum(text[i + 1])
         THEN {lower(text[i] \o " " \o text[i + 1])} \cup FindVersions(text, i + 2)
         ELSE FindVersions(text, i + 1)

extract_keywords(text) ==
    {kw \in FindCapitalized(text, 1) : kw \notin CommonWords}
    \cup FindVersions(text, 1)
    \cup {lower(text[i]) : i \in {j \in DOMAIN text : lower(text[j]) \in VersionWords}}

parse_text_fallback_to_preferred(text) ==
    LET lowered == text_lower(text)
        sections == split_sections(lowered)
        required_skills == extract_skills(sections[1])
        preferred_skills == extract_skills(sections[2])
        no_sections == required_skills = {} /\ preferred_skills = {}
    IN  [text |-> text,
         min_experience |-> extract_experience(lowered),
         required_skills |-> required_skills,
         preferred_skills |-> IF no_sections THEN extract_skills(lowered) ELSE preferred_skills,
         keywords |-> extract_keywords(lowered)]

parse_text(text) ==
    LET lowered == text_lower(text)
        min_experience == extract_experience(lowered)
        sections == split_sections(lowered)
        required_skills == extract_skills(sections[1])
        preferred_skills == extract_skills(sections[2])
        no_sections == required_skills = {} /\ preferred_skills = {}
        keywords == extract_keywords(lowered)
    IN  [text |-> text,
         min_experience |-> min_experience,
         required_skills |-> IF no_sections THEN extract_skills(lowered) ELSE required_skills,
         preferred_skills |-> preferred_skills,
         keywords |-> keywords]

----------------------------------------------------------------------------
(* KeywordExtractor.  The variations of the default taxonomy that contain  *)
(* punctuation (c#, .net, c++, react.js, ci/cd, ...) are not words of the   *)
(* texts of the model and are left out.                                    *)

default_taxonomy ==
    <<[category |-> "programming_languages", skill |-> "java",
       variations |-> <<<<"java">>, <<"j2ee">>, <<"jdk">>, <<"jre">>, <<"java", "8">>,
                        <<"java", "11">>, <<"java", "17">>>>],
      [category |-> "programming_languages", skill |-> "python",
       variations |-> <<<<"python">>, <<"python3">>, <<"py">>>>],
      [category |-> "programming_languages", skill |-> "javascript",
       variations |-> <<<<"javascript">>, <<"js">>, <<"ecmascript">>, <<"es6">>, <<"es2015">>>>],
      [category |-> "programming_languages", skill |-> "typescript",
       variations |-> <<<<"typescript">>, <<"ts">>>>],
      [category |-> "programming_languages", skill |-> "csharp",
       variations |-> <<<<"csharp">>, <<"dotnet">>>>],
      [category |-> "programming_languages", skill |-> "cpp",
       variations |-> <<<<"cpp">>>>],
      [category |-> "programming_languages", skill |-> "go",
       variations |-> <<<<"go">>, <<"golang">>>>],
      [category |-> "programming_languages", skill |-> "rust",
       variations |-> <<<<"rust">>>>],
      [category |-> "programming_languages", skill |-> "ruby",
       variations |-> <<<<"ruby">>, <<"rails">>>>],
      [category |-> "programming_languages", skill |-> "php",
       variations |-> <<<<"php">>>>],
      [category |-> "programming_languages", skill |-> "kotlin",
       variations |-> <<<<"kotlin">>>>],
      [category |-> "programming_languages", skill |-> "scala",
       variations |-> <<<<"scala">>>>],
      [category |-> "programming_languages", skill |-> "swift",
       variations |-> <<<<"swift">>>>],
      [category |-> "frameworks", skill |-> "spring",
       variations |-> <<<<"spring">>, <<"spring", "boot">>, <<"spring", "mvc">>,
                        <<"spring", "framework">>, <<"spring", "cloud">>>>],
      [category |-> "frameworks", skill |-> "hibernate",
       variations |-> <<<<"hibernate">>, <<"jpa">>>>],
      [category |-> "frameworks", skill |-> "django",
       variations |-> <<<<"django">>>>],
      [category |-> "frameworks", skill |-> "flask",
       variations |-> <<<<"flask">>>>],
      [category |-> "frameworks", skill |-> "react",
       variations |-> <<<<"react">>, <<"reactjs">>>>],
      [category |-> "frameworks", skill |-> "angular",
       variations |-> <<<<"angular">>, <<"angularjs">>>>],
      [category |-> "frameworks", skill |-> "vue",
       variations |-> <<<<"vue">>, <<"vuejs">>>>],
      [category |-> "frameworks", skill |-> "nodejs",
       variations |-> <<<<"node">>, <<"nodejs">>>>],
      [category |-> "frameworks", skill |-> "express",
       variations |-> <<<<"express">>, <<"expressjs">>>>],
      [category |-> "frameworks", skill |-> "aspnet",
       variations |-> <<<<"aspnet">>>>],
      [category |-> "frameworks", skill |-> "struts",
       variations |-> <<<<"struts">>>>],
      [category |-> "frameworks", skill |-> "jsf",
       variations |-> <<<<"jsf">>, <<"java", "server", "faces">>>>],
      [category |-> "databases", skill |-> "mysql",
       variations |-> <<<<"mysql">>>>],
      [category |-> "databases", skill |-> "postgresql",
       variations |-> <<<<"postgresql">>, <<"postgres">>>>],
      [category |-> "databases", skill |-> "mongodb",
       variations |-> <<<<"mongodb">>, <<"mongo">>>>],
      [category |-> "databases", skill |-> "oracle",
       variations |-> <<<<"oracle">>, <<"oracle", "db">>, <<"oracle", "database">>>>],
      [category |-> "databases", skill |-> "sqlserver",
       variations |-> <<<<"sql", "server">>, <<"mssql">>, <<"ms", "sql">>>>],
      [category |-> "databases", skill |-> "redis",
       variations |-> <<<<"redis">>>>],
      [category |-> "databases", skill |-> "cassandra",
       variations |-> <<<<"cassandra">>>>],
      [category |-> "databases", skill |-> "dynamodb",
       variations |-> <<<<"dynamodb">>>>],
      [category |-> "databases", skill |-> "db2",
       variations |-> <<<<"db2">>>>],
      [category |-> "cloud", skill |-> "aws",
       variations |-> <<<<"aws">>, <<"amazon", "web", "services">>, <<"ec2">>, <<"s3">>,
                        <<"lambda">>, <<"cloudformation">>>>],
      [category |-> "cloud", skill |-> "azure",
       variations |-> <<<<"azure">>, <<"microsoft", "azure">>>>],
      [category |-> "cloud", skill |-> "gcp",
       variations |-> <<<<"gcp">>, <<"google", "cloud">>, <<"google", "cloud", "platform">>>>],
      [category |-> "devops", skill |-> "docker",
       variations |-> <<<<"docker">>>>],
      [category |-> "devops", skill |-> "kubernetes",
       variations |-> <<<<"kubernetes">>, <<"k8s">>>>],
      [category |-> "devops", skill |-> "jenkins",
       variations |-> <<<<"jenkins">>>>],
      [category |-> "devops", skill |-> "git",
       variations |-> <<<<"git">>, <<"github">>, <<"gitlab">>, <<"bitbucket">>>>],
      [category |-> "devops", skill |-> "cicd",
       variations |-> <<<<"cicd">>, <<"continuous", "integration">>,
                        <<"continuous", "deployment">>>>],
      [category |-> "devops", skill |-> "maven",
       variations |-> <<<<"maven">>>>],
      [category |-> "devops", skill |-> "gradle",
       variations |-> <<<<"gradle">>>>],
      [category |-> "devops", skill |-> "ansible",
       variations |-> <<<<"ansible">>>>],
      [category |-> "devops", skill |-> "terraform",
       variations |-> <<<<"terraform">>>>],
      [category |-> "web_technologies", skill |-> "html",
       variations |-> <<<<"html">>, <<"html5">>>>],
      [category |-> "web_technologies", skill |-> "css",
       variations |-> <<<<"css">>, <<"css3">>, <<"sass">>, <<"less">>>>],
      [category |-> "web_technologies", skill |-> "rest",
       variations |-> <<<<"rest">>, <<"restful">>, <<"rest", "api">>>>],
      [category |-> "web_technologies", skill |-> "soap",
       variations |-> <<<<"soap">>>>],
      [category |-> "web_technologies", skill |-> "microservices",
       variations |-> <<<<"microservices">>, <<"microservice">>>>],
      [category |-> "web_technologies", skill |-> "graphql",
       variations |-> <<<<"graphql">>>>],
      [category |-> "web_technologies", skill |-> "json",
       variations |-> <<<<"json">>>>],
      [category |-> "web_technologies", skill |-> "xml",
       variations |-> <<<<"xml">>>>],
      [category |-> "methodologies", skill |-> "agile",
       variations |-> <<<<"agile">>>>],
      [category |-> "methodologies", skill |-> "scrum",
       variations |-> <<<<"scrum">>>>],
      [category |-> "methodologies", skill |-> "kanban",
       variations |-> <<<<"kanban">>>>],
      [category |-> "methodologies", skill |-> "devops",
       variations |-> <<<<"devops">>>>],
      [category |-> "methodologies", skill |-> "tdd",
       variations |-> <<<<"tdd">>, <<"test", "driven", "development">>>>],
      [category |-> "methodologies", skill |-> "bdd",
       variations |-> <<<<"bdd">>, <<"behavior", "driven", "development">>>>]>>

(* re.search(r'\b' + variation + r'\b', text): the variation occurs *)
Occurs(text, phrase) == \E i \in DOMAIN text : MatchesAt(text, i, phrase)

(* len(re.findall(...)): the number of non-overlapping occurrences from i on *)
RECURSIVE CountMatches(_, _, _)
CountMatches(text, i, phrase) ==
    IF i > Len(text)
    THEN 0
    ELSE IF MatchesAt(text, i, phrase)
         THEN 1 + CountMatches(text, i + Len(phrase), phrase)
         ELSE CountMatches(text, i + 1, phrase)

RECURSIVE Repeat(_, _)
Repeat(x, n) == IF n = 0 THEN <<>> ELSE <<x>> \o Repeat(x, n - 1)

(* KeywordExtractor.extract_skills *)
extractor_extract_skills(taxonomy, text) ==
    LET lowered == text_lower(text)
    IN  {taxonomy[e].skill :
            e \in {d \in DOMAIN taxonomy :
                      \E v \in DOMAIN taxonomy[d].variations :
                          Occurs(lowered, taxonomy[d].variations[v])}}

(* KeywordExtractor.extract_keywords: every match of every variation, in   *)
(* the order of the taxonomy                                               *)
RECURSIVE VariationMatches(_, _, _)
VariationMatches(lowered, variations, v) ==
    IF v > Len(variations)
    THEN <<>>
    ELSE Repeat(Join(variations[v]), CountMatches(lowered, 1, variations[v]))
         \o VariationMatches(lowered, variations, v + 1)

RECURSIVE TaxonomyMatches(_, _, _)
TaxonomyMatches(lowered, taxonomy, e) ==
    IF e > Len(taxonomy)
    THEN <<>>
    ELSE VariationMatches(lowered, taxonomy[e].variations, 1)
         \o TaxonomyMatches(lowered, taxonomy, e + 1)

extract_keywords_canonical_once(taxonomy, text) ==
    LET lowered == text_lower(text)
        found(e) == \E v \in DOMAIN taxonomy[e].variations :
                       Occurs(lowered, taxonomy[e].variations[v])
        F[e \in 0..Len(taxonomy)] ==
            IF e = 0
            THEN <<>>
            ELSE F[e - 1] \o (IF found(e) THEN <<taxonomy[e].variations[1][1]>> ELSE <<>>)
    IN  F[Len(taxonomy)]

extractor_extract_keywords(taxonomy, text) ==
    TaxonomyMatches(text_lower(text), taxonomy, 1)

(* KeywordExtractor.extract_experience_years *)
resume_experience_patterns ==
    <<<<"N", "+?", "Y", "..exp">>,
      <<"exp..", "N", "+?", "Y">>,
      <<"over", "N", "Y">>,
      <<"more", "than", "N", "Y">>>>

(* four-digit tokens: the years of employment date ranges *)
YearValue ==
    [t \in {"1990", "2016", "2019", "2021", "2026"} |->
        CASE t = "1990" -> 1990 [] t = "2016" -> 2016 [] t = "2019" -> 2019
          [] t = "2021" -> 2021 [] t = "2026" -> 2026]

EndWords == {"present", "current"}

(* one- and two-digit tokens: the months of MM/YYYY dates *)
MonthTokens == {"01", "06", "12"}

(* the two date patterns of _calculate_experience_from_dates on tokens:    *)
(* YYYY - (YYYY|present|current) and                                       *)
(* MM/YYYY - (MM/YYYY|present|current)                                     *)
date_patterns == <<"YYYY", "MM/YYYY">>

(* the token after the last one of a match of the pattern at i, 0 if the   *)
(* pattern does not match there                                            *)
DateMatchEnd(text, i, pattern) ==
    IF pattern = "YYYY"
    THEN IF /\ i + 2 <= Len(text)
            /\ text[i] \in DOMAIN YearValue
            /\ text[i + 1] = "-"
            /\ text[i + 2] \in DOMAIN YearValue \/ lower(text[i + 2]) \in EndWords
         THEN i + 3
         ELSE 0
    ELSE IF /\ i + 4 <= Len(text)
            /\ text[i] \in MonthTokens
            /\ text[i + 1] = "/"
            /\ text[i + 2] \in DOMAIN YearValue
            /\ text[i + 3] = "-"
         THEN IF /\ i + 6 <= Len(text)
                 /\ text[i + 4] \in MonthTokens
                 /\ text[i + 5] = "/"
                 /\ text[i + 6] \in DOMAIN YearValue
              THEN i + 7
              ELSE IF lower(text[i + 4]) \in EndWords THEN i + 5 ELSE 0
         ELSE 0

(* the years a match from i up to e adds to total_years: the first year of *)
(* the start date to the first year of the end date, 2026 for present or   *)
(* current, counted when 0 < years < 30                                    *)
MatchYears(text, i, e, pattern) ==
    LET start_year == YearValue[IF pattern = "YYYY" THEN text[i] ELSE text[i + 2]]
        end_year == IF lower(text[e - 1]) \in EndWords
                    THEN 2026
                    ELSE YearValue[text[e - 1]]
        years == IF end_year - start_year > 0 THEN end_year - start_year ELSE 0
    IN  IF years > 0 /\ years < 30 THEN years ELSE 0

(* the loop over re.finditer(pattern, text) from token i on *)
RECURSIVE DateYears(_, _, _)
DateYears(text, i, pattern) ==
    IF i > Len(text)
    THEN 0
    ELSE LET e == DateMatchEnd(text, i, pattern)
         IN  IF e # 0
             THEN MatchYears(text, i, e, pattern) + DateYears(text, e, pattern)
             ELSE DateYears(text, i + 1, pattern)

(* _calculate_experience_from_dates: total_years over both patterns *)
calculate_experience_from_dates(text) ==
    DateYears(text, 1, date_patterns[1]) + DateYears(text, 1, date_patterns[2])

Max(S) == CHOOSE x \in S : \A y \in S : x >= y

extract_experience_years(text) ==
    LET lowered == text_lower(text)
        mentioned == UNION {FindYears(lowered, 1, resume_experience_patterns[p]) :
                                p \in DOMAIN resume_experience_patterns}
        date_years == calculate_experience_from_dates(text)
        years == {year \in mentioned : 0 < year /\ year < 50}
                 \cup (IF date_years # 0 THEN {date_years} ELSE {})
    IN  IF years # {} THEN Max(years) ELSE 0

----------------------------------------------------------------------------
(* ResumeParser.  A call either raises or returns: Raise(e) and            *)
(* Returned(v).  A path argument is a record: the Python type of the       *)
(* argument, whether the path exists, and the file's name, suffix, whether *)
(* its content can be read and decoded, and its text.  The environment     *)
(* tells which optional libraries are installed and what the soffice       *)
(* conversion does.                                                        *)

Raise(e) == [raised |-> e]
Returned(v) == [raised |-> "none", ret |-> v]

supported_formats == {".pdf", ".docx", ".doc", ".txt"}

(* str.strip() on a token text: leading and trailing line breaks go *)
RECURSIVE Strip(_)
Strip(text) ==
    IF text = <<>>
    THEN text
    ELSE IF Head(text) = NL
         THEN Strip(Tail(text))
         ELSE IF text[Len(text)] = NL
              THEN Strip(SubSeq(text, 1, Len(text) - 1))
              ELSE text


(* _extract_pdf: a reading error is printed and the text read so far,      *)
(* nothing for a file that cannot be opened as a PDF, is returned          *)
extract_pdf(file, env) ==
    IF ~env.pypdf2
    THEN Raise("RuntimeError")
    ELSE Returned(IF file.readable THEN Strip(file.text) ELSE <<>>)

(* _extract_docx *)
extract_docx(file, env) ==
    IF ~env.docx
    THEN Raise("RuntimeError")
    ELSE Returned(IF file.readable THEN Strip(file.text) ELSE <<>>)

(* _extract_txt *)
extract_txt(file) ==
    Returned(IF file.readable THEN Strip(file.text) ELSE <<>>)

(* _convert_doc_to_docx: the converted file, in a temporary directory *)
convert_doc_to_docx(file, env) ==
    IF env.soffice = "missing"
    THEN Raise("RuntimeError")
    ELSE IF env.soffice = "fails"
         THEN Raise("RuntimeError")
         ELSE IF env.soffice = "no_output"
              THEN Raise("RuntimeError")
              ELSE Returned([file EXCEPT !.suffix = ".docx"])


(* parse_file after its checks: the text by file type, then the record *)
parse_file_extract(arg, env) ==
    LET file_ext == lower(arg.suffix)
        converted == convert_doc_to_docx(arg, env)
        text ==
            CASE file_ext = ".pdf" -> extract_pdf(arg, env)
              [] file_ext = ".docx" -> extract_docx(arg, env)
              [] file_ext = ".doc" ->
                     IF converted.raised # "none"
                     THEN converted
                     ELSE extract_docx(converted.ret, env)
              [] file_ext = ".txt" -> extract_txt(arg)
    IN  IF text.raised # "none"
        THEN text
        ELSE Returned([file_name |-> arg.name, text |-> text.ret, source |-> "file"])


parse_file_suffix_first(arg, env) ==
    IF arg.type \notin {"str", "Path"}
    THEN Raise("TypeError")
    ELSE IF lower(arg.suffix) \notin supported_formats
         THEN Raise("ValueError")
         ELSE IF ~arg.exists
              THEN Raise("FileNotFoundError")
              ELSE parse_file_extract(arg, env)

(* ResumeParser.parse_file *)
parse_file(arg, env) ==
    IF arg.type \notin {"str", "Path"}
    THEN Raise("TypeError")
    ELSE IF ~arg.exists
         THEN Raise("FileNotFoundError")
         ELSE IF lower(arg.suffix) \notin supported_formats
              THEN Raise("ValueError")
              ELSE parse_file_extract(arg, env)

(* parse_file, the .doc branch: the converted files that exist once the   *)
(* branch is left.  _convert_doc_to_docx writes the converted file into a  *)
(* new temporary directory; the finally clause unlinks it when it exists,  *)
(* whether _extract_docx returned or raised                                *)
temp_after_doc_unlink_on_success(arg, env, files) ==
    LET converted == convert_doc_to_docx(arg, env)
    IN  IF converted.raised # "none"
        THEN files
        ELSE LET written == files \cup {converted.ret}
                 text == extract_docx(converted.ret, env)
             IN  IF text.raised # "none" THEN written ELSE written \ {converted.ret}

temp_after_doc(arg, env, files) ==
    LET converted == convert_doc_to_docx(arg, env)
    IN  IF converted.raised # "none"
        THEN files
        ELSE LET written == files \cup {converted.ret}
                 text == extract_docx(converted.ret, env)
             IN  IF converted.ret \in written THEN written \ {converted.ret} ELSE written

(* the converted files that exist after parse_file *)
temp_after_parse_file(arg, env, files) ==
    IF /\ arg.type \in {"str", "Path"}
       /\ arg.exists
       /\ lower(arg.suffix) = ".doc"
    THEN temp_after_doc(arg, env, files)
    ELSE files

(* the converted files that exist after the loop of parse_directory *)
RECURSIVE temp_after_parse_files(_, _, _)
temp_after_parse_files(dir_files, env, files) ==
    IF dir_files = <<>>
    THEN files
    ELSE LET file_path == Head(dir_files)
             after == temp_after_parse_file(
                          [type |-> "str", exists |-> TRUE, name |-> file_path.name,
                           suffix |-> file_path.suffix, readable |-> file_path.readable,
                           text |-> file_path.text], env, files)
         IN  temp_after_parse_files(Tail(dir_files), env, after)

temp_after_parse_directory(arg, env, files) ==
    IF arg.type \in {"str", "Path"} /\ arg.exists /\ arg.kind = "dir"
    THEN temp_after_parse_files(arg.files, env, files)
    ELSE files

temp_after_load_resumes(source, env, files) ==
    IF source.exists /\ source.kind = "dir"
    THEN temp_after_parse_directory(source, env, files)
    ELSE files

(* the loop of parse_directory, also written out in screen_resumes: the   *)
(* files with a supported suffix, each parsed, a failing one skipped      *)
RECURSIVE parse_files(_, _)
parse_files(files, env) ==
    IF files = <<>>
    THEN <<>>
    ELSE LET file_path == Head(files)
             resume == parse_file([type |-> "str", exists |-> TRUE, name |-> file_path.name,
                                   suffix |-> file_path.suffix,
                                   readable |-> file_path.readable,
                                   text |-> file_path.text], env)
         IN  (IF lower(file_path.suffix) \in supported_formats /\ resume.raised = "none"
              THEN <<resume.ret>>
              ELSE <<>>)
             \o parse_files(Tail(files), env)

(* ResumeParser.parse_directory *)
parse_directory(arg, env) ==
    IF arg.type \notin {"str", "Path"}
    THEN Raise("TypeError")
    ELSE IF ~arg.exists
         THEN Raise("FileNotFoundError")
         ELSE IF arg.kind # "dir"
              THEN Raise("ValueError")
              ELSE Returned(parse_files(arg.files, env))

(* _combine_text_fields *)
TextFields == <<"Text", "Experience", "Skills", "Summary", "Education">>
IdentityKeys == {"ResumeID", "Name", "Email", "Phone", "Location", "Source"}
OtherKeys == <<"Category">>

RECURSIVE JoinFields(_, _, _)
JoinFields(resume, keys, k) ==
    IF k > Len(keys)
    THEN <<>>
    ELSE (IF keys[k] \in DOMAIN resume /\ resume[keys[k]] # <<>>
          THEN resume[keys[k]]
          ELSE <<>>)
         \o JoinFields(resume, keys, k + 1)

combine_text_fields(resume) ==
    LET text_parts == JoinFields(resume, TextFields, 1)
    IN  Strip(IF text_parts # <<>>
              THEN text_parts
              ELSE JoinFields(resume, OtherKeys, 1))

(* the loop of parse_jsonl over the lines from line_num on.  A line is     *)
(* blank, malformed (JSONDecodeError, the line is skipped), an object, or  *)
(* well-formed JSON that is not an object: _combine_text_fields then       *)
(* raises, the outer handler prints the error and reading stops            *)
RECURSIVE parse_lines(_, _)
parse_lines(lines, line_num) ==
    IF line_num > Len(lines)
    THEN <<>>
    ELSE LET line == lines[line_num]
         IN  CASE line.kind \in {"blank", "malformed"} -> parse_lines(lines, line_num + 1)
               [] line.kind = "not_object" -> <<>>
               [] line.kind = "object" ->
                    <<[resume_id |-> Get(line.value, "ResumeID",
                                         "RESUME_" \o ToString(line_num)),
                       name |-> Get(line.value, "Name", "Unknown"),
                       email |-> Get(line.value, "Email", ""),
                       phone |-> Get(line.value, "Phone", ""),
                       category |-> Get(line.value, "Category", <<>>),
                       text |-> combine_text_fields(line.value),
                       source |-> "jsonl"]>>
                    \o parse_lines(lines, line_num + 1)

(* ResumeParser.parse_jsonl *)
parse_jsonl(arg) ==
    IF arg.type \notin {"str", "Path"}
    THEN Raise("TypeError")
    ELSE IF ~arg.exists
         THEN Raise("FileNotFoundError")
         ELSE Returned(IF arg.readable THEN parse_lines(arg.lines, 1) ELSE <<>>)

(* ResumeScreeningSystem._load_resumes *)
load_resumes(source, env) ==
    IF ~source.exists
    THEN Raise("FileNotFoundError")
    ELSE IF source.kind = "file" /\ source.suffix = ".jsonl"
         THEN parse_jsonl(source)
         ELSE IF source.kind = "dir"
              THEN parse_directory(source, env)
              ELSE Raise("ValueError")

(* JDParser.parse_file: a missing file and a reading error both raise *)
jd_parse_file(file) ==
    IF ~file.exists
    THEN Raise("FileNotFoundError")
    ELSE IF ~file.readable
         THEN Raise("Exception")
         ELSE Returned(parse_text(file.text))

----------------------------------------------------------------------------
(* rank_resumes and the sort step of run(): sorted(..., key=total_score,   *)
(* reverse=True), a stable sort in descending order of the key             *)


RECURSIVE InsertBeforeTies(_, _)
InsertBeforeTies(sorted, r) ==
    IF sorted = <<>>
    THEN <<r>>
    ELSE IF Head(sorted).score.total_score > r.score.total_score
         THEN <<Head(sorted)>> \o InsertBeforeTies(Tail(sorted), r)
         ELSE <<r>> \o sorted

RECURSIVE InsertByScore(_, _)
InsertByScore(sorted, r) ==
    IF sorted = <<>>
    THEN <<r>>
    ELSE IF Head(sorted).score.total_score >= r.score.total_score
         THEN <<Head(sorted)>> \o InsertByScore(Tail(sorted), r)
         ELSE <<r>> \o sorted

RECURSIVE SortedByScore(_, _)
SortedByScore(list, n) ==
    IF n = 0 THEN <<>> ELSE InsertByScore(SortedByScore(list, n - 1), list[n])

rank_resumes(scored) == SortedByScore(scored, Len(scored))

----------------------------------------------------------------------------
(* Filtering and truncation.  An optional argument is a record: None when  *)
(* it is left out, Some(v) when it is given.                               *)

None == [given |-> FALSE]
Some(v) == [given |-> TRUE, value |-> v]


filter_strictly_above(cfg, scored, min_score) ==
    LET threshold == IF ~min_score.given THEN Get(cfg, "min_score", 0) ELSE min_score.value
    IN  SelectSeq(scored, LAMBDA r : r.score.total_score > threshold)

filter_ignores_config(cfg, scored, min_score) ==
    LET threshold == IF ~min_score.given THEN 0 ELSE min_score.value
    IN  SelectSeq(scored, LAMBDA r : r.score.total_score >= threshold)

(* ResumeScorer.filter_by_threshold *)
filter_by_threshold(cfg, scored, min_score) ==
    LET threshold == IF ~min_score.given THEN Get(cfg, "min_score", 0) ELSE min_score.value
    IN  SelectSeq(scored, LAMBDA r : r.score.total_score >= threshold)

(* step 4 of run(): the filter is applied only when min_score is given *)
run_filter(scored, min_score) ==
    IF min_score.given
    THEN SelectSeq(scored, LAMBDA r : r.score.total_score >= min_score.value)
    ELSE scored


top_n_slice_off_by_one(ranked, top_n) ==
    IF top_n >= 0
    THEN SubSeq(ranked, 1, (IF top_n < Len(ranked) THEN top_n ELSE Len(ranked)) - 1)
    ELSE SubSeq(ranked, 1, IF Len(ranked) + top_n > 0 THEN Len(ranked) + top_n ELSE 0)

(* ranked_resumes[:top_n] *)
top_n_slice(ranked, top_n) ==
    IF top_n >= 0
    THEN SubSeq(ranked, 1, IF top_n < Len(ranked) THEN top_n ELSE Len(ranked))
    ELSE SubSeq(ranked, 1, IF Len(ranked) + top_n > 0 THEN Len(ranked) + top_n ELSE 0)

----------------------------------------------------------------------------
(* Inputs *)

SkillNames == {"java", "spring", "mysql", "docker", "kubernetes"}
KeywordNames == {"java", "Java", "agile"}
ResumeKeywordNames == {"Java", "agile"}
TotalScores == {0, 5429, 7750, 10000}

RECURSIVE SeqsUpTo(_, _)
SeqsUpTo(S, n) ==
    IF n = 0
    THEN {<<>>}
    ELSE LET shorter == SeqsUpTo(S, n - 1)
         IN  shorter \cup {Append(q, x) : q \in {t \in shorter : Len(t) = n - 1}, x \in S}

(* the job requirement dictionaries given to score_resume directly, as in  *)
(* the sample of scorer.py                                                 *)
DirectJDs ==
    {[required_skills |-> r, preferred_skills |-> p, min_experience |-> m, keywords |-> k] :
        r \in {{}, {"java", "spring", "mysql"}, {"Java", "java", "docker"}},
        p \in {{}, {"docker", "kubernetes"}},
        m \in {0, 5},
        k \in {{}, {"java", "spring", "microservices"}}}

ScenarioJD ==
    <<"Required", ":", "Java", ",", "Spring", ",", "MySQL", ".",
      "Preferred", ":", "Docker", ",", "Kubernetes", ".",
      "Minimum", "5", "years", ".">>

JDTexts ==
    {ScenarioJD,
     <<"Java", "and", "Docker", ".">>,
     <<"3", "+", "years", "of", "experience", ".", "Required", ":", "Java", ",", "k8s", ".">>,
     <<"Java", "developer", ".", "Required", ":", "teamwork", ".">>,
     <<"Java", "is", "used", ".", "Preferred", ":", "Docker", ".">>,
     <<"Required", ":", "Spring", "Boot", ",", "Java", "11", ".">>,
     <<"Required", ":", "Java", ".", "Preferred", ":", "Docker", ".",
       "Required", ":", "MySQL", ".">>}

ScenarioSkills == {"java", "spring", "mysql", "docker"}

(* thresholds (in hundredths of a percent) and result sizes asked for *)
Thresholds == {0, 5429, 6000, 10000, 10001}
MinScores == {None} \cup {Some(m) : m \in Thresholds}
TopNs == -1..(MaxResumes + 1)

(* configurations that differ in min_score; the last has no min_score *)
ThresholdConfigs ==
    {DefaultConfig,
     [weights |-> DefaultWeights, min_score |-> 6000, experience_tolerance |-> 2],
     [weights |-> DefaultWeights, experience_tolerance |-> 2]}

(* lists of scored resumes; the resume of an entry is its input position *)
ScoredLists ==
    {[i \in 1..Len(q) |-> [resume |-> i, score |-> [total_score |-> q[i]]]] :
        q \in SeqsUpTo(TotalScores, MaxResumes)}

(* resume texts, files, directories, JSONL files and environments *)
ResumeTextA ==
    <<"Java", "developer", "with", "6", "years", "of", "experience", ".",
      "Spring", ",", "MySQL", ".">>
ResumeTextB == <<"Agile", "coach", ",", "2016", "-", "2019", ".", "Docker", ".">>

Files ==
    {[name |-> "alice.txt", suffix |-> ".txt", readable |-> TRUE, text |-> ResumeTextA],
     [name |-> "bob.pdf", suffix |-> ".PDF", readable |-> FALSE, text |-> ResumeTextB],
     [name |-> "carol.docx", suffix |-> ".docx", readable |-> TRUE, text |-> ResumeTextB],
     [name |-> "dave.doc", suffix |-> ".doc", readable |-> TRUE, text |-> ResumeTextA],
     [name |-> "erin.txt", suffix |-> ".txt", readable |-> FALSE, text |-> ResumeTextA],
     [name |-> "notes.xyz", suffix |-> ".xyz", readable |-> TRUE, text |-> ResumeTextA]}

(* the files of a directory in the order iterdir() yields them *)
Directories ==
    {files \in SeqsUpTo(Files, MaxFiles) :
        \A i, j \in DOMAIN files : i # j => files[i] # files[j]}

Lines ==
    {[kind |-> "blank"], [kind |-> "malformed"], [kind |-> "not_object"],
     [kind |-> "object", value |-> [ResumeID |-> "1", Name |-> "Bob", Text |-> ResumeTextA]],
     [kind |-> "object", value |-> [Category |-> ResumeTextB]]}

NoSource ==
    [type |-> "str", exists |-> FALSE, kind |-> "none", suffix |-> "", readable |-> FALSE,
     files |-> <<>>, lines |-> <<>>]
OtherFile ==
    [type |-> "str", exists |-> TRUE, kind |-> "file", suffix |-> ".csv", readable |-> TRUE,
     files |-> <<>>, lines |-> <<>>]
DirectoryOf(files) ==
    [type |-> "str", exists |-> TRUE, kind |-> "dir", suffix |-> "", readable |-> TRUE,
     files |-> files, lines |-> <<>>]
JsonlOf(lines, readable) ==
    [type |-> "str", exists |-> TRUE, kind |-> "file", suffix |-> ".jsonl",
     readable |-> readable, files |-> <<>>, lines |-> lines]

DirectorySources == {DirectoryOf(files) : files \in Directories}
JsonlSources ==
    {JsonlOf(lines, TRUE) : lines \in SeqsUpTo(Lines, MaxLines)}
    \cup {JsonlOf(<<[kind |-> "blank"]>>, FALSE)}

(* PyPDF2 and python-docx installed or not, and what soffice does *)
AllInstalled == [pypdf2 |-> TRUE, docx |-> TRUE, soffice |-> "ok"]
Environments ==
    {AllInstalled,
     [pypdf2 |-> FALSE, docx |-> FALSE, soffice |-> "missing"],
     [pypdf2 |-> TRUE, docx |-> TRUE, soffice |-> "fails"],
     [pypdf2 |-> TRUE, docx |-> FALSE, soffice |-> "no_output"],
     [pypdf2 |-> TRUE, docx |-> FALSE, soffice |-> "ok"]}

MissingJD == [exists |-> FALSE, readable |-> FALSE, text |-> <<>>]
UnreadableJD == [exists |-> TRUE, readable |-> FALSE, text |-> <<>>]
ReadableJD == [exists |-> TRUE, readable |-> TRUE, text |-> ScenarioJD]
JDFiles == {MissingJD, UnreadableJD, ReadableJD}

Programs == {"main", "screen"}
Options ==
    {[top_n |-> 10, min_score |-> None, output_format |-> "csv"],
     [top_n |-> 1, min_score |-> Some(6000), output_format |-> "json"]}

(* the arguments of run() (main.py) and of screen_resumes() (screen.py,    *)
(* where the source is the input folder and the JD file is what            *)
(* find_jd_file found in it, missing if it found none)                     *)
RunOf(program, jd_file, source, env, options) ==
    [program |-> program, jd_file |-> jd_file, source |-> source, env |-> env,
     top_n |-> options.top_n, min_score |-> options.min_score,
     output_format |-> options.output_format]

RunArgs ==
    {RunOf(program, jd_file, source, AllInstalled, options) :
        program \in Programs, jd_file \in JDFiles,
        source \in {NoSource, OtherFile, DirectoryOf(<<>>)}, options \in Options}
    \cup {RunOf(program, ReadableJD, source, env, options) :
            program \in Programs, source \in DirectorySources,
            env \in Environments, options \in Options}
    \cup {RunOf(program, ReadableJD, source, AllInstalled, options) :
            program \in Programs, source \in JsonlSources, options \in Options}

(* what ResumeParser's methods can be handed: a value that is no path, or  *)
(* a str or Path naming a file, a directory, or nothing                    *)
NonPathTypes == {"int", "NoneType"}
PathTypes == {"str", "Path"}

FileArgs ==
    {[type |-> type, exists |-> FALSE, name |-> "", suffix |-> "", readable |-> FALSE,
      text |-> <<>>] : type \in NonPathTypes}
    \cup {[type |-> type, exists |-> TRUE, name |-> file.name, suffix |-> file.suffix,
           readable |-> file.readable, text |-> file.text] :
            type \in PathTypes, file \in Files}
    \cup {[type |-> type, exists |-> FALSE, name |-> file.name, suffix |-> file.suffix,
           readable |-> FALSE, text |-> <<>>] :
            type \in PathTypes, file \in Files}

SourceArgs ==
    {[NoSource EXCEPT !.type = type] : type \in NonPathTypes \cup PathTypes}
    \cup {[source EXCEPT !.type = type] :
            type \in PathTypes,
            source \in {OtherFile, DirectoryOf(<<>>),
                        DirectoryOf(<<[name |-> "alice.txt", suffix |-> ".txt",
                                       readable |-> TRUE, text |-> ResumeTextA]>>),
                        JsonlOf(<<[kind |-> "object", value |-> [Category |-> ResumeTextB]]>>,
                                TRUE)}}
    \cup DirectorySources \cup JsonlSources

(* the sentences of the texts given to the extractor, and the texts *)
TextSegments ==
    {<<"6", "years", "of", "experience", ".">>,
     <<"over", "3", "years", ".">>,
     <<"2016", "-", "2019", ".">>,
     <<"2019", "-", "2021", ".">>,
     <<"1990", "-", "2026", ".">>,
     <<"01", "/", "2019", "-", "Present", ".">>,
     <<"06", "/", "2016", "-", "12", "/", "2019", ".">>,
     <<"Java", "and", "Docker", ",", "Java", ".">>,
     <<"Spring", "Boot", ".">>,
     <<"github", "and", "k8s", ".">>}

RECURSIVE Flatten(_)
Flatten(segments) ==
    IF segments = <<>> THEN <<>> ELSE Head(segments) \o Flatten(Tail(segments))

ExtractorTexts == {Flatten(segments) : segments \in SeqsUpTo(TextSegments, MaxSegments)}

----------------------------------------------------------------------------
(* State machine *)

NoCall == [op |-> "idle"]

(* config and weights before a ResumeScorer is constructed *)
NoScorer == [scorer |-> "none"]

(* jd_data before a job description is parsed, the result file before it *)
(* is written                                                            *)
NoJD == [jd |-> "none"]
NotWritten == [written |-> FALSE]

(* no run of a pipeline is in progress: the scorer is called directly *)
NoRun ==
    /\ pc = "none"
    /\ run = [program |-> "none"]
    /\ resumes = <<>>
    /\ top_resumes = <<>>
    /\ output = NotWritten

Init ==
    /\ config \in {load_config(source) : source \in ConfigSources}
    /\ weights = init_weights(config)
    /\ jd_data \in DirectJDs
    /\ call = NoCall
    /\ scored_resumes = <<>>
    /\ ranked_resumes = <<>>
    /\ skills_taxonomy = default_taxonomy
    /\ temp_files = {}
    /\ NoRun

(* step 1 of run(): jd_data = parse_text(text of the JD file) *)
ParseJD(text) ==
    /\ call.op = "idle"
    /\ jd_data' = parse_text(text)
    /\ call' = [op |-> "parse_text", text |-> text]
    /\ UNCHANGED <<config, weights, scored_resumes, ranked_resumes>>
    /\ UNCHANGED <<extractor_vars, parser_vars, run_vars>>

ScoreResume(resume_skills, resume_experience, resume_keywords) ==
    /\ call.op = "idle"
    /\ config # NoScorer
    /\ LET raised == score_raises(config, weights, resume_skills, resume_experience,
                                  resume_keywords, jd_data)
       IN  IF raised # "none"
           THEN call' = [op |-> "score_resume",
                         resume_skills |-> resume_skills,
                         resume_experience |-> resume_experience,
                         resume_keywords |-> resume_keywords,
                         raised |-> raised]
           ELSE LET l == score_locals(config, weights, resume_skills, resume_experience,
                                      resume_keywords, jd_data)
                IN  \E ret \in score_returns(l, resume_skills, resume_experience) :
                        call' = [op |-> "score_resume",
                                 resume_skills |-> resume_skills,
                                 resume_experience |-> resume_experience,
                                 resume_keywords |-> resume_keywords,
                                 locals |-> l,
                                 ret |-> ret]
    /\ UNCHANGED <<config, weights, jd_data, scored_resumes, ranked_resumes>>
    /\ UNCHANGED <<extractor_vars, parser_vars, run_vars>>

SkillMatch(resume_skills, jd_skills) ==
    /\ call.op = "idle"
    /\ call' = [op |-> "skill_match", resume_skills |-> resume_skills,
                jd_skills |-> jd_skills,
                ret |-> calculate_skill_match(resume_skills, jd_skills)]
    /\ UNCHANGED <<config, weights, jd_data, scored_resumes, ranked_resumes>>
    /\ UNCHANGED <<extractor_vars, parser_vars, run_vars>>

(* the same resume with one more skill, matched against the same needed set *)
AddSkill(skill) ==
    /\ call.op \in {"skill_match", "skill_added"}
    /\ call' = [op |-> "skill_added",
                resume_skills |-> call.resume_skills \cup {skill},
                jd_skills |-> call.jd_skills,
                ret |-> calculate_skill_match(call.resume_skills \cup {skill}, call.jd_skills),
                added |-> skill,
                before |-> call.ret]
    /\ UNCHANGED <<config, weights, jd_data, scored_resumes, ranked_resumes>>
    /\ UNCHANGED <<extractor_vars, parser_vars, run_vars>>

ExperienceMatch(resume_exp, required_exp) ==
    /\ call.op = "idle"
    /\ call' = [op |-> "experience_match", resume_exp |-> resume_exp,
                required_exp |-> required_exp,
                ret |-> calculate_experience_match(config, resume_exp, required_exp)]
    /\ UNCHANGED <<config, weights, jd_data, scored_resumes, ranked_resumes>>
    /\ UNCHANGED <<extractor_vars, parser_vars, run_vars>>

KeywordMatch(resume_keywords, jd_keywords) ==
    /\ call.op = "idle"
    /\ call' = [op |-> "keyword_match", resume_keywords |-> resume_keywords,
                jd_keywords |-> jd_keywords,
                ret |-> calculate_keyword_match(resume_keywords, jd_keywords)]
    /\ UNCHANGED <<config, weights, jd_data, scored_resumes, ranked_resumes>>
    /\ UNCHANGED <<extractor_vars, parser_vars, run_vars>>

RankResumes ==
    /\ call.op = "idle"
    /\ ranked_resumes' = rank_resumes(scored_resumes)
    /\ call' = [op |-> "rank_resumes"]
    /\ UNCHANGED <<config, weights, jd_data, scored_resumes>>
    /\ UNCHANGED <<extractor_vars, parser_vars, run_vars>>

FilterByThreshold(min_score) ==
    /\ call.op = "idle"
    /\ call' = [op |-> "filter_by_threshold", min_score |-> min_score,
                ret |-> filter_by_threshold(config, scored_resumes, min_score)]
    /\ UNCHANGED <<config, weights, jd_data, scored_resumes, ranked_resumes>>
    /\ UNCHANGED <<extractor_vars, parser_vars, run_vars>>

RankAndFilter_truncate_before_sort(min_score, top_n) ==
    /\ call.op = "idle"
    /\ scored_resumes' = run_filter(scored_resumes, min_score)
    /\ ranked_resumes' = rank_resumes(top_n_slice(scored_resumes', top_n))
    /\ call' = [op |-> "rank_and_filter", min_score |-> min_score, top_n |-> top_n,
                scored |-> scored_resumes,
                top_resumes |-> ranked_resumes']
    /\ UNCHANGED <<config, weights, jd_data>>
    /\ UNCHANGED <<extractor_vars, parser_vars, run_vars>>

(* steps 4 of run() and 5 of screen_resumes(): filter, sort, truncate *)
RankAndFilter(min_score, top_n) ==
    /\ call.op = "idle"
    /\ scored_resumes' = run_filter(scored_resumes, min_score)
    /\ ranked_resumes' = rank_resumes(scored_resumes')
    /\ call' = [op |-> "rank_and_filter", min_score |-> min_score, top_n |-> top_n,
                scored |-> scored_resumes,
                top_resumes |-> top_n_slice(ranked_resumes', top_n)]
    /\ UNCHANGED <<config, weights, jd_data>>
    /\ UNCHANGED <<extractor_vars, parser_vars, run_vars>>

(* ResumeScorer(config_path): __init__ *)
Construct(source) ==
    /\ call.op = "idle"
    /\ config = NoScorer
    /\ LET cfg == load_config(source)
       IN  IF init_raises(cfg) # "none"
           THEN /\ call' = [op |-> "init", source |-> source, raised |-> init_raises(cfg)]
                /\ UNCHANGED <<config, weights>>
           ELSE /\ config' = cfg
                /\ weights' = init_weights(cfg)
                /\ call' = [op |-> "init", source |-> source]
    /\ UNCHANGED <<jd_data, scored_resumes, ranked_resumes>>
    /\ UNCHANGED <<extractor_vars, parser_vars, run_vars>>

(* the caller takes the result *)
Return ==
    /\ call.op # "idle"
    /\ call' = NoCall
    /\ UNCHANGED <<config, weights, jd_data, scored_resumes, ranked_resumes>>
    /\ UNCHANGED <<extractor_vars, parser_vars, run_vars>>

(* a call of KeywordExtractor.extract_skills *)
ExtractSkills(text) ==
    /\ call.op = "idle"
    /\ call' = [op |-> "extract_skills", text |-> text,
                ret |-> extractor_extract_skills(skills_taxonomy, text)]
    /\ UNCHANGED <<config, weights, jd_data, scored_resumes, ranked_resumes>>
    /\ UNCHANGED <<extractor_vars, parser_vars, run_vars>>

(* a call of KeywordExtractor.extract_keywords *)
ExtractKeywords(text) ==
    /\ call.op = "idle"
    /\ call' = [op |-> "extract_keywords", text |-> text,
                ret |-> extractor_extract_keywords(skills_taxonomy, text)]
    /\ UNCHANGED <<config, weights, jd_data, scored_resumes, ranked_resumes>>
    /\ UNCHANGED <<extractor_vars, parser_vars, run_vars>>

(* a call of KeywordExtractor.extract_experience_years *)
ExtractExperienceYears(text) ==
    /\ call.op = "idle"
    /\ call' = [op |-> "extract_experience_years", text |-> text,
                ret |-> extract_experience_years(text)]
    /\ UNCHANGED <<config, weights, jd_data, scored_resumes, ranked_resumes>>
    /\ UNCHANGED <<extractor_vars, parser_vars, run_vars>>

(* a call of ResumeParser.parse_file *)
ParseFile(file_path, env) ==
    /\ call.op = "idle"
    /\ LET result == parse_file(file_path, env)
       IN  call' = IF result.raised # "none"
                   THEN [op |-> "parse_file", file_path |-> file_path, env |-> env,
                         raised |-> result.raised]
                   ELSE [op |-> "parse_file", file_path |-> file_path, env |-> env,
                         ret |-> result.ret]
    /\ temp_files' = temp_after_parse_file(file_path, env, temp_files)
    /\ UNCHANGED <<config, weights, jd_data, scored_resumes, ranked_resumes>>
    /\ UNCHANGED <<extractor_vars, run_vars>>

(* a call of ResumeParser.parse_jsonl *)
ParseJsonl(jsonl_path) ==
    /\ call.op = "idle"
    /\ LET result == parse_jsonl(jsonl_path)
       IN  call' = IF result.raised # "none"
                   THEN [op |-> "parse_jsonl", jsonl_path |-> jsonl_path,
                         raised |-> result.raised]
                   ELSE [op |-> "parse_jsonl", jsonl_path |-> jsonl_path,
                         ret |-> result.ret]
    /\ UNCHANGED <<config, weights, jd_data, scored_resumes, ranked_resumes>>
    /\ UNCHANGED <<extractor_vars, parser_vars, run_vars>>

(* a call of ResumeParser.parse_directory *)
ParseDirectory(directory_path, env) ==
    /\ call.op = "idle"
    /\ LET result == parse_directory(directory_path, env)
       IN  call' = IF result.raised # "none"
                   THEN [op |-> "parse_directory", directory_path |-> directory_path,
                         env |-> env, raised |-> result.raised]
                   ELSE [op |-> "parse_directory", directory_path |-> directory_path,
                         env |-> env, ret |-> result.ret]
    /\ temp_files' = temp_after_parse_directory(directory_path, env, temp_files)
    /\ UNCHANGED <<config, weights, jd_data, scored_resumes, ranked_resumes>>
    /\ UNCHANGED <<extractor_vars, run_vars>>

(* screen_resumes(): the folder checks and find_jd_file *)
RunCheckFolder ==
    /\ pc = "check_folder"
    /\ UNCHANGED parser_vars
    /\ pc' = IF ~run.source.exists \/ run.source.kind # "dir"
             THEN "folder_error"
             ELSE IF ~run.jd_file.exists THEN "no_jd" ELSE "parse_jd"
    /\ UNCHANGED <<config, weights, jd_data, call, scored_resumes, ranked_resumes,
                   skills_taxonomy, run, resumes, top_resumes, output>>

(* step 1 of run(), step 2 of screen_resumes(): parse the job description *)
RunParseJD ==
    /\ pc = "parse_jd"
    /\ UNCHANGED parser_vars
    /\ LET parsed == jd_parse_file(run.jd_file)
       IN  IF parsed.raised # "none"
           THEN pc' = "jd_error" /\ UNCHANGED jd_data
           ELSE pc' = "load_resumes" /\ jd_data' = parsed.ret
    /\ UNCHANGED <<config, weights, call, scored_resumes, ranked_resumes,
                   skills_taxonomy, run, resumes, top_resumes, output>>

RunLoadResumes_without_empty_check ==
    /\ pc = "load_resumes"
    /\ temp_files' = IF run.program = "main"
                     THEN temp_after_load_resumes(run.source, run.env, temp_files)
                     ELSE temp_after_parse_files(run.source.files, run.env, temp_files)
    /\ LET loaded == IF run.program = "main"
                     THEN load_resumes(run.source, run.env)
                     ELSE Returned(parse_files(run.source.files, run.env))
       IN  IF loaded.raised # "none"
           THEN pc' = "load_error" /\ UNCHANGED resumes
           ELSE resumes' = loaded.ret /\ pc' = "score"
    /\ UNCHANGED <<config, weights, jd_data, call, scored_resumes, ranked_resumes,
                   skills_taxonomy, run, top_resumes, output>>

(* step 2 of run(): _load_resumes; step 3 of screen_resumes(): the loop    *)
(* over the folder's files                                                 *)
RunLoadResumes ==
    /\ pc = "load_resumes"
    /\ temp_files' = IF run.program = "main"
                     THEN temp_after_load_resumes(run.source, run.env, temp_files)
                     ELSE temp_after_parse_files(run.source.files, run.env, temp_files)
    /\ LET loaded == IF run.program = "main"
                     THEN load_resumes(run.source, run.env)
                     ELSE Returned(parse_files(run.source.files, run.env))
       IN  IF loaded.raised # "none"
           THEN pc' = "load_error" /\ UNCHANGED resumes
           ELSE /\ resumes' = loaded.ret
                /\ pc' = IF loaded.ret = <<>> THEN "no_resumes" ELSE "score"
    /\ UNCHANGED <<config, weights, jd_data, call, scored_resumes, ranked_resumes,
                   skills_taxonomy, run, top_resumes, output>>

RunScoreNext_on_shared_text ==
    /\ pc = "score"
    /\ UNCHANGED parser_vars
    /\ Len(scored_resumes) < Len(resumes)
    /\ LET resume == resumes[Len(scored_resumes) + 1]
           text == IF scored_resumes = <<>>
                   THEN resume.text
                   ELSE scored_resumes[Len(scored_resumes)].resume.text \o resume.text
           resume_skills == extractor_extract_skills(skills_taxonomy, text)
           resume_experience == extract_experience_years(text)
           resume_keywords == extractor_extract_keywords(skills_taxonomy, text)
       IN  \E score \in score_returns(
                            score_locals(config, weights, resume_skills,
                                         resume_experience, resume_keywords, jd_data),
                            resume_skills, resume_experience) :
               scored_resumes' =
                   Append(scored_resumes,
                          [resume |-> resume, score |-> score,
                           skills |-> resume_skills,
                           experience |-> resume_experience])
    /\ UNCHANGED <<config, weights, jd_data, call, ranked_resumes, skills_taxonomy,
                   pc, run, resumes, top_resumes, output>>

(* one turn of the extract-and-score loop *)
RunScoreNext ==
    /\ pc = "score"
    /\ UNCHANGED parser_vars
    /\ Len(scored_resumes) < Len(resumes)
    /\ LET resume == resumes[Len(scored_resumes) + 1]
           resume_skills == extractor_extract_skills(skills_taxonomy, resume.text)
           resume_experience == extract_experience_years(resume.text)
           resume_keywords == extractor_extract_keywords(skills_taxonomy, resume.text)
       IN  IF score_raises(config, weights, resume_skills, resume_experience,
                           resume_keywords, jd_data) # "none"
           THEN pc' = "raised" /\ UNCHANGED scored_resumes
           ELSE /\ \E score \in score_returns(
                                    score_locals(config, weights, resume_skills,
                                                 resume_experience, resume_keywords, jd_data),
                                    resume_skills, resume_experience) :
                        scored_resumes' =
                            Append(scored_resumes,
                                   [resume |-> resume, score |-> score,
                                    skills |-> resume_skills,
                                    experience |-> resume_experience])
                /\ UNCHANGED pc
    /\ UNCHANGED <<config, weights, jd_data, call, ranked_resumes,
                   skills_taxonomy, run, resumes, top_resumes, output>>

(* step 4 of run(): filter, sort, top N *)
RunRankAndFilter ==
    /\ pc = "score"
    /\ UNCHANGED parser_vars
    /\ Len(scored_resumes) = Len(resumes)
    /\ scored_resumes' = run_filter(scored_resumes, run.min_score)
    /\ ranked_resumes' = rank_resumes(scored_resumes')
    /\ top_resumes' = top_n_slice(ranked_resumes', run.top_n)
    /\ pc' = "save"
    /\ UNCHANGED <<config, weights, jd_data, call, skills_taxonomy, run, resumes, output>>

(* step 5 of run(): _save_results *)
RunSaveResults ==
    /\ pc = "save"
    /\ UNCHANGED parser_vars
    /\ output' = [written |-> TRUE,
                  format |-> IF run.output_format = "csv" THEN "csv" ELSE "json",
                  results |-> top_resumes]
    /\ pc' = "done"
    /\ UNCHANGED <<config, weights, jd_data, call, scored_resumes, ranked_resumes,
                   skills_taxonomy, run, resumes, top_resumes>>

(* the quantified inputs are only enumerated where the action is enabled *)
Idle == call.op = "idle"

Next ==
    \/ Idle /\ \E text \in JDTexts : ParseJD(text)
    \/ Idle /\ \E resume_skills \in SUBSET SkillNames, resume_experience \in 0..MaxExperience,
                  resume_keywords \in SeqsUpTo(ResumeKeywordNames, MaxResumeKeywords) :
                    ScoreResume(resume_skills, resume_experience, resume_keywords)
    \/ Return

Spec == Init /\ [][Next]_vars

(* the component scores as pure functions of their arguments *)
InitParts ==
    /\ config \in {load_config(source) : source \in ConfigSources}
    /\ weights = init_weights(config)
    /\ jd_data = [required_skills |-> {}, preferred_skills |-> {},
                  min_experience |-> 0, keywords |-> {}]
    /\ call = NoCall
    /\ scored_resumes = <<>>
    /\ ranked_resumes = <<>>
    /\ skills_taxonomy = default_taxonomy
    /\ temp_files = {}
    /\ NoRun

NextParts ==
    \/ Idle /\ \E resume_skills \in SUBSET (SkillNames \cup {"Java"}),
                  jd_skills \in SUBSET SkillNames :
                    SkillMatch(resume_skills, jd_skills)
    \/ ~Idle /\ \E skill \in SkillNames \cup {"Java"} : AddSkill(skill)
    \/ Idle /\ \E resume_exp \in 0..MaxExperience, required_exp \in 0..MaxExperience :
                    ExperienceMatch(resume_exp, required_exp)
    \/ Idle /\ \E resume_keywords \in SeqsUpTo(KeywordNames, MaxKeywords),
                  jd_keywords \in SUBSET {"java", "agile", "Spring"} :
                    KeywordMatch(resume_keywords, jd_keywords)
    \/ Return

SpecParts == InitParts /\ [][NextParts]_vars

(* constructing a scorer from any configuration input, then scoring *)
EmptyJD == [required_skills |-> {}, preferred_skills |-> {}, min_experience |-> 0, keywords |-> {}]

InitConfig ==
    /\ config = NoScorer
    /\ weights = NoScorer
    /\ jd_data \in DirectJDs \cup {EmptyJD, [key \in {} |-> 0]}
    /\ call = NoCall
    /\ scored_resumes = <<>>
    /\ ranked_resumes = <<>>
    /\ skills_taxonomy = default_taxonomy
    /\ temp_files = {}
    /\ NoRun

NextConfig ==
    \/ Idle /\ \E source \in AllConfigSources : Construct(source)
    \/ Idle /\ \E resume_skills \in {{}, {"java"}, ScenarioSkills},
                  resume_experience \in 0..MaxExperience,
                  resume_keywords \in SeqsUpTo(ResumeKeywordNames, 1) :
                    ScoreResume(resume_skills, resume_experience, resume_keywords)
    \/ Return

SpecConfig == InitConfig /\ [][NextConfig]_vars

(* a run of the screening pipeline, from its entry to its end *)
InitRun ==
    /\ config = load_config([kind |-> "none"])
    /\ weights = init_weights(config)
    /\ jd_data = NoJD
    /\ call = NoCall
    /\ scored_resumes = <<>>
    /\ ranked_resumes = <<>>
    /\ skills_taxonomy = default_taxonomy
    /\ temp_files = {}
    /\ run \in RunArgs
    /\ pc = IF run.program = "screen" THEN "check_folder" ELSE "parse_jd"
    /\ resumes = <<>>
    /\ top_resumes = <<>>
    /\ output = NotWritten

NextRun ==
    \/ RunCheckFolder
    \/ RunParseJD
    \/ RunLoadResumes
    \/ RunScoreNext
    \/ RunRankAndFilter
    \/ RunSaveResults

SpecRun == InitRun /\ [][NextRun]_vars

(* ranking a list of scored resumes *)
InitRank ==
    /\ config \in ThresholdConfigs
    /\ weights = init_weights(config)
    /\ jd_data = [required_skills |-> {}, preferred_skills |-> {},
                  min_experience |-> 0, keywords |-> {}]
    /\ call = NoCall
    /\ scored_resumes \in ScoredLists
    /\ ranked_resumes = <<>>
    /\ skills_taxonomy = default_taxonomy
    /\ temp_files = {}
    /\ NoRun

NextRank ==
    \/ RankResumes
    \/ Idle /\ \E min_score \in MinScores : FilterByThreshold(min_score)
    \/ Idle /\ \E min_score \in MinScores, top_n \in TopNs : RankAndFilter(min_score, top_n)
    \/ Return

SpecRank == InitRank /\ [][NextRank]_vars

(* calls of the resume parser *)
InitParser ==
    /\ config = NoScorer
    /\ weights = NoScorer
    /\ jd_data = NoJD
    /\ call = NoCall
    /\ scored_resumes = <<>>
    /\ ranked_resumes = <<>>
    /\ skills_taxonomy = default_taxonomy
    /\ temp_files = {}
    /\ NoRun

NextParser ==
    \/ Idle /\ \E file_path \in FileArgs, env \in Environments : ParseFile(file_path, env)
    \/ Idle /\ \E jsonl_path \in SourceArgs : ParseJsonl(jsonl_path)
    \/ Idle /\ \E directory_path \in SourceArgs, env \in Environments :
                  ParseDirectory(directory_path, env)
    \/ Return

SpecParser == InitParser /\ [][NextParser]_vars

(* calls of the keyword extractor *)
NextExtractor ==
    \/ Idle /\ \E text \in ExtractorTexts : ExtractSkills(text)
    \/ Idle /\ \E text \in ExtractorTexts : ExtractKeywords(text)
    \/ Idle /\ \E text \in ExtractorTexts : ExtractExperienceYears(text)
    \/ Return

SpecExtractor == InitParser /\ [][NextExtractor]_vars

----------------------------------------------------------------------------
(* Properties.  The job requirement the scorer sees is the lower-cased     *)
(* set of the JD's skills; a reported score is compared at the precision   *)
(* it is reported with (two decimals of a percentage).                     *)

JDRequired == {lower(skill) : skill \in Get(jd_data, "required_skills", {})}
JDPreferred == {lower(skill) : skill \in Get(jd_data, "preferred_skills", {})}
JDMinExperience == Get(jd_data, "min_experience", 0)
Tolerance == Get(config, "experience_tolerance", 2)

(* the rational r is n / d *)
IsRatio(r, n, d) == r[1] * d = r[2] * n

(* k hundredths is n / d times 100, to the nearest hundredth *)
Reports(k, n, d) == 2 * Abs(k * d - 10000 * n) <= d

InUnit(r) == RLeq(Zero, r) /\ RLeq(r, One)

(* C1: vacuous requirement.  An empty required (preferred) skill set makes *)
(* the required (preferred) skill match 1.0 and a required experience of 0 *)
(* makes the experience match 1.0, whatever the resume's skills and        *)
(* experience, and score_resume reports 100.0 for that component.          *)
C1_VacuousRequirement ==
    call.op = "score_resume" =>
        /\ JDRequired = {} =>
              call.locals.required_score = One /\ call.ret.required_skills_score = 10000
        /\ JDPreferred = {} =>
              call.locals.preferred_score = One /\ call.ret.preferred_skills_score = 10000
        /\ JDMinExperience = 0 =>
              call.locals.experience_score = One /\ call.ret.experience_score = 10000

C1_Witness ==
    /\ call.op = "score_resume"
    /\ JDRequired = {} /\ JDPreferred = {} /\ JDMinExperience = 0
    /\ call.resume_skills # {}
    /\ call.resume_experience = 0
    /\ call.ret.required_skills_score = 10000
    /\ call.ret.experience_score = 10000

(* C2: for a non-empty needed set the skill match is                       *)
(* |have \cap need| / |need|; score_resume applies it to the required and  *)
(* to the preferred skills of the JD and reports each ratio times 100.     *)
C2_SkillRatio ==
    call.op = "score_resume" =>
        LET have == call.resume_skills
        IN  /\ JDRequired # {} =>
                  /\ IsRatio(call.locals.required_score,
                             Cardinality(have \cap JDRequired), Cardinality(JDRequired))
                  /\ Reports(call.ret.required_skills_score,
                             Cardinality(have \cap JDRequired), Cardinality(JDRequired))
            /\ JDPreferred # {} =>
                  /\ IsRatio(call.locals.preferred_score,
                             Cardinality(have \cap JDPreferred), Cardinality(JDPreferred))
                  /\ Reports(call.ret.preferred_skills_score,
                             Cardinality(have \cap JDPreferred), Cardinality(JDPreferred))

C2_Witness ==
    /\ call.op = "score_resume"
    /\ Cardinality(JDRequired) = 3
    /\ Cardinality(call.resume_skills \cap JDRequired) = 2
    /\ Cardinality(JDPreferred) = 2
    /\ Cardinality(call.resume_skills \cap JDPreferred) = 1
    /\ call.ret.required_skills_score = 6667
    /\ call.ret.preferred_skills_score = 5000

(* C3: monotonicity.  Adding to the resume one skill that is needed and    *)
(* was not present strictly increases the skill match, adding any other    *)
(* skill never decreases it, and the match stays 1.0 once every needed     *)
(* skill is present.                                                       *)
C3_Monotone ==
    [][(call.op \in {"skill_match", "skill_added"} /\ call'.op = "skill_added") =>
          LET have == call.resume_skills
              need == call.jd_skills
              new == call'.resume_skills \ have
          IN  /\ call'.jd_skills = need
              /\ (new # {} /\ new \subseteq need) => RLt(call.ret, call'.ret)
              /\ RLeq(call.ret, call'.ret)
              /\ need \subseteq have => call.ret = One /\ call'.ret = One]_vars

C3_Witness ==
    /\ call.op = "skill_added"
    /\ call.added \in call.jd_skills
    /\ Cardinality(call.jd_skills) = 3
    /\ Cardinality(call.resume_skills \cap call.jd_skills) = 2
    /\ call.before = <<1, 3>>
    /\ call.ret = <<2, 3>>

(* C4: experience boundary.  With tolerance 2 and 5 required years: 5      *)
(* years score 1.0; 4 and 3 years score in [0.7, 1.0); 2 years score 0.28  *)
(* (at most 0.7); 0 years score 0.0.                                       *)
C4_ExperienceBoundary ==
    (call.op = "experience_match" /\ Tolerance = 2 /\ call.required_exp = 5) =>
        /\ call.resume_exp = 5 => call.ret = One
        /\ call.resume_exp \in {3, 4} => RLeq(<<7, 10>>, call.ret) /\ RLt(call.ret, One)
        /\ call.resume_exp = 2 => IsRatio(call.ret, 28, 100) /\ RLeq(call.ret, <<7, 10>>)
        /\ call.resume_exp = 0 => IsRatio(call.ret, 0, 1)

C4_Witness ==
    /\ call.op = "experience_match"
    /\ Tolerance = 2
    /\ call.required_exp = 5
    /\ call.resume_exp = 3
    /\ call.ret = <<4, 5>>

(* C5: for need > 0 the experience match is 1.0 when have >= need;         *)
(* max(0.7, 1 - (need - have) / (tolerance + 1) * 0.3), which lies in      *)
(* [0.7, 1.0), when need - tolerance <= have < need; and                   *)
(* max(0, have / need * 0.7), at most 0.7, when have < need - tolerance.   *)
C5_ExperiencePiecewise ==
    (call.op = "experience_match" /\ call.required_exp > 0) =>
        LET have == call.resume_exp
            need == call.required_exp
            gap == need - have
        IN  /\ have >= need => call.ret = One
            /\ (need - Tolerance <= have /\ have < need) =>
                  /\ IF gap <= Tolerance + 1
                     THEN IsRatio(call.ret, 10 * (Tolerance + 1) - 3 * gap,
                                  10 * (Tolerance + 1))
                     ELSE IsRatio(call.ret, 7, 10)
                  /\ RLeq(<<7, 10>>, call.ret)
                  /\ RLt(call.ret, One)
            /\ have < need - Tolerance =>
                  /\ IsRatio(call.ret, 7 * have, 10 * need)
                  /\ RLeq(Zero, call.ret)
                  /\ RLeq(call.ret, <<7, 10>>)

C5_Witness ==
    /\ call.op = "experience_match"
    /\ Tolerance = 1
    /\ call.required_exp = 4
    /\ call.resume_exp = 3
    /\ call.ret = <<17, 20>>

(* C6: the keyword match is 1.0 for an empty JD keyword set and otherwise  *)
(* min(1.0, matchRatio + bonus), matchRatio = |distinct resume keywords    *)
(* that are JD keywords| / |JD keywords|, bonus = min(0.2, occurrences of  *)
(* JD keywords in the resume list / length of the list), 0 for an empty    *)
(* list; it never exceeds 1.0 however often a keyword is repeated.         *)
C6_KeywordMatch ==
    call.op = "keyword_match" =>
        LET list == call.resume_keywords
            jd == {lower(kw) : kw \in call.jd_keywords}
            distinct == {lower(list[i]) : i \in DOMAIN list}
            n == Cardinality(jd)
            m == Cardinality(distinct \cap jd)
            c == Cardinality({i \in DOMAIN list : lower(list[i]) \in jd})
            len == Len(list)
            \* matchRatio + bonus as one fraction sum_n / sum_d
            bonus_n == IF len = 0 THEN 0 ELSE IF 5 * c <= len THEN c ELSE 1
            bonus_d == IF len = 0 THEN 1 ELSE IF 5 * c <= len THEN len ELSE 5
            sum_n == m * bonus_d + bonus_n * n
            sum_d == n * bonus_d
        IN  /\ n = 0 => call.ret = One
            /\ n > 0 => IF sum_n <= sum_d
                        THEN IsRatio(call.ret, sum_n, sum_d)
                        ELSE call.ret = One
            /\ InUnit(call.ret)

C6_Witness ==
    /\ call.op = "keyword_match"
    /\ call.jd_keywords = {"java", "agile"}
    /\ call.resume_keywords = <<"java", "Java", "agile", "java">>
    /\ call.ret = One

(* C7 as amended: the four component scores lie in [0, 1] and are reported *)
(* in [0, 100]; total_score is the weighted sum of the components times    *)
(* 100 to two decimals and lies in [0, 100]; it is 100 whenever all four   *)
(* components are 1.0, and the weighted sum is 1.0 exactly when every      *)
(* component of positive weight is 1.0.                                    *)
WeightedSum ==
    LET term(weight, score) == Rat(weight * score[1], 100 * score[2])
        sum == RAdd(RAdd(term(weights.required_skills, call.locals.required_score),
                         term(weights.preferred_skills, call.locals.preferred_score)),
                    RAdd(term(weights.experience, call.locals.experience_score),
                         term(weights.keyword_density, call.locals.keyword_score)))
    IN  [n |-> sum[1], d |-> sum[2]]

ComponentsInRange ==
    /\ InUnit(call.locals.required_score) /\ InUnit(call.locals.preferred_score)
    /\ InUnit(call.locals.experience_score) /\ InUnit(call.locals.keyword_score)
    /\ call.ret.required_skills_score \in 0..10000
    /\ call.ret.preferred_skills_score \in 0..10000
    /\ call.ret.experience_score \in 0..10000
    /\ call.ret.keyword_score \in 0..10000

AllComponentsOne ==
    /\ call.locals.required_score = One /\ call.locals.preferred_score = One
    /\ call.locals.experience_score = One /\ call.locals.keyword_score = One

WeightsSumToOne ==
    /\ \A key \in DOMAIN weights : weights[key] >= 0
    /\ weights.required_skills + weights.preferred_skills
         + weights.experience + weights.keyword_density = 100

C7_TotalScore ==
    (call.op = "score_resume" /\ WeightsSumToOne) =>
        /\ ComponentsInRange
        /\ Reports(call.ret.total_score, WeightedSum.n, WeightedSum.d)
        /\ call.ret.total_score \in 0..10000
        /\ AllComponentsOne => call.ret.total_score = 10000
        /\ WeightedSum.n = WeightedSum.d <=>
              /\ weights.required_skills > 0 => call.locals.required_score = One
              /\ weights.preferred_skills > 0 => call.locals.preferred_score = One
              /\ weights.experience > 0 => call.locals.experience_score = One
              /\ weights.keyword_density > 0 => call.locals.keyword_score = One

(* C7 as stated: ... and total_score equals 100 exactly when all four      *)
(* components are 1.0, for all non-negative weights that sum to 1.0.       *)
C7_Original ==
    (call.op = "score_resume" /\ WeightsSumToOne) =>
        /\ ComponentsInRange
        /\ Reports(call.ret.total_score, WeightedSum.n, WeightedSum.d)
        /\ call.ret.total_score \in 0..10000
        /\ call.ret.total_score = 10000 <=> AllComponentsOne

C7_Witness ==
    /\ call.op = "score_resume"
    /\ weights = DefaultWeights
    /\ call.ret.required_skills_score = 3333
    /\ call.ret.preferred_skills_score = 5000
    /\ call.ret.experience_score = 9000
    /\ call.ret.keyword_score = 5333
    /\ call.ret.total_score = 4800

(* C8: scenario.  Parsing 'Required: Java, Spring, MySQL. Preferred:       *)
(* Docker, Kubernetes. Minimum 5 years.' and scoring a resume with skills  *)
(* {java, spring, mysql, docker} and 6 years gives required 100.0,         *)
(* preferred 50.0, experience 100.0, matched required skills {java,        *)
(* spring, mysql} and no missing required skill.                           *)
ScenarioParsed == "text" \in DOMAIN jd_data /\ jd_data.text = ScenarioJD

C8_Scenario ==
    (/\ call.op = "score_resume"
     /\ ScenarioParsed
     /\ call.resume_skills = ScenarioSkills
     /\ call.resume_experience = 6) =>
        /\ call.ret.required_skills_score = 10000
        /\ call.ret.preferred_skills_score = 5000
        /\ call.ret.experience_score = 10000
        /\ call.ret.matched_required_skills = {"java", "spring", "mysql"}
        /\ call.ret.missing_required_skills = {}

C8_Witness ==
    /\ call.op = "score_resume"
    /\ ScenarioParsed
    /\ call.resume_skills = ScenarioSkills
    /\ call.resume_experience = 6
    /\ call.ret.preferred_skills_score = 5000
    /\ call.ret.required_experience = 5

(* C9: score_resume returns matched_required = have \cap required,         *)
(* matched_preferred = have \cap preferred, missing_required = required \  *)
(* have; matched and missing required skills are disjoint and together are *)
(* the required skills; required_skills_score is 100 * |matched_required|  *)
(* / |required| for a non-empty required set.                              *)
C9_MatchedMissing ==
    call.op = "score_resume" =>
        LET have == call.resume_skills
            matched == call.ret.matched_required_skills
            missing == call.ret.missing_required_skills
        IN  /\ matched = have \cap JDRequired
            /\ call.ret.matched_preferred_skills = have \cap JDPreferred
            /\ missing = JDRequired \ have
            /\ matched \cap missing = {}
            /\ matched \cup missing = JDRequired
            /\ JDRequired # {} =>
                  Reports(call.ret.required_skills_score,
                          Cardinality(matched), Cardinality(JDRequired))

C9_Witness ==
    /\ call.op = "score_resume"
    /\ Get(jd_data, "required_skills", {}) = {"Java", "java", "docker"}
    /\ call.resume_skills = {"java", "spring"}
    /\ call.ret.matched_required_skills = {"java"}
    /\ call.ret.missing_required_skills = {"docker"}
    /\ call.ret.required_skills_score = 5000

(* C10: ranking.  The ranked list holds the entries of the scored list in  *)
(* non-increasing order of total_score, and entries with the same          *)
(* total_score keep their relative input order.                            *)
C10_RankStable ==
    call.op = "rank_resumes" =>
        /\ Len(ranked_resumes) = Len(scored_resumes)
        /\ \A i \in DOMAIN scored_resumes :
              Cardinality({j \in DOMAIN ranked_resumes :
                              ranked_resumes[j] = scored_resumes[i]}) = 1
        /\ \A i, j \in DOMAIN ranked_resumes :
              i < j =>
                  /\ ranked_resumes[i].score.total_score >= ranked_resumes[j].score.total_score
                  /\ ranked_resumes[i].score.total_score = ranked_resumes[j].score.total_score
                        => ranked_resumes[i].resume < ranked_resumes[j].resume

C10_Witness ==
    /\ call.op = "rank_resumes"
    /\ Len(scored_resumes) = 3
    /\ scored_resumes[1].score.total_score = 5429
    /\ scored_resumes[2].score.total_score = 7750
    /\ scored_resumes[3].score.total_score = 5429
    /\ ranked_resumes[1].resume = 2
    /\ ranked_resumes[2].resume = 1
    /\ ranked_resumes[3].resume = 3

(* the entries of a list of scored resumes that reach the threshold m, as  *)
(* the set of their input positions                                        *)
Reaching(scored, m) == {i \in DOMAIN scored : scored[i].score.total_score >= m}

(* ret holds exactly the entries of scored at the positions of S, once     *)
(* each, in input order                                                    *)
KeepsExactly(ret, scored, S) ==
    /\ Len(ret) = Cardinality(S)
    /\ \A i \in S : \E j \in DOMAIN ret : ret[j] = scored[i]
    /\ \A j \in DOMAIN ret : \E i \in S : ret[j] = scored[i]
    /\ \A j, k \in DOMAIN ret : j < k => ret[j].resume < ret[k].resume

(* C11: threshold filter.  With min_score given, filter_by_threshold       *)
(* returns exactly the entries whose total_score >= min_score (an entry at *)
(* the threshold is kept), in their input order, and no other entry.       *)
C11_FilterThreshold ==
    (call.op = "filter_by_threshold" /\ call.min_score.given) =>
        KeepsExactly(call.ret, scored_resumes, Reaching(scored_resumes, call.min_score.value))

C11_Witness ==
    /\ call.op = "filter_by_threshold"
    /\ call.min_score = Some(5429)
    /\ Len(scored_resumes) = 3
    /\ scored_resumes[1].score.total_score = 5429
    /\ scored_resumes[2].score.total_score = 0
    /\ scored_resumes[3].score.total_score = 7750
    /\ Len(call.ret) = 2
    /\ call.ret[1].resume = 1
    /\ call.ret[2].resume = 3

(* C12 as stated: with min_score left out, filter_by_threshold returns     *)
(* every entry of its input, whatever the scorer's configuration.          *)
C12_Original ==
    (call.op = "filter_by_threshold" /\ ~call.min_score.given) =>
        call.ret = scored_resumes

(* C12, amended: with min_score left out, filter_by_threshold filters by   *)
(* the configuration's min_score (0.0 when the configuration has none): it *)
(* returns exactly the entries whose total_score reaches that value, in    *)
(* input order, which is every entry when that value is 0.0.               *)
C12_FilterDefault ==
    (call.op = "filter_by_threshold" /\ ~call.min_score.given) =>
        /\ KeepsExactly(call.ret, scored_resumes,
                        Reaching(scored_resumes, Get(config, "min_score", 0)))
        /\ Get(config, "min_score", 0) = 0 => call.ret = scored_resumes

C12_Witness ==
    /\ call.op = "filter_by_threshold"
    /\ ~call.min_score.given
    /\ Get(config, "min_score", 0) = 6000
    /\ Len(scored_resumes) = 2
    /\ scored_resumes[1].score.total_score = 5429
    /\ scored_resumes[2].score.total_score = 7750
    /\ Len(call.ret) = 1
    /\ call.ret[1].resume = 2

(* C13: top-N.  For n >= 0 the pipeline returns the first min(n, len)      *)
(* entries of the ranked, filtered list in ranked order; when n exceeds    *)
(* the number of surviving entries it returns all of them, unpadded.       *)
C13_TopN ==
    (call.op = "rank_and_filter" /\ call.top_n >= 0) =>
        /\ Len(call.top_resumes) =
              (IF call.top_n < Len(ranked_resumes) THEN call.top_n ELSE Len(ranked_resumes))
        /\ \A i \in DOMAIN call.top_resumes : call.top_resumes[i] = ranked_resumes[i]
        /\ call.top_n >= Len(ranked_resumes) => call.top_resumes = ranked_resumes
        /\ KeepsExactly(scored_resumes, call.scored,
                        IF call.min_score.given
                        THEN Reaching(call.scored, call.min_score.value)
                        ELSE DOMAIN call.scored)

C13_Witness ==
    /\ call.op = "rank_and_filter"
    /\ call.top_n = 3
    /\ call.min_score = Some(5429)
    /\ Len(call.scored) = 3
    /\ call.scored[1].score.total_score = 0
    /\ call.scored[2].score.total_score = 5429
    /\ call.scored[3].score.total_score = 7750
    /\ Len(call.top_resumes) = 2
    /\ call.top_resumes[1].resume = 3
    /\ call.top_resumes[2].resume = 2

(* a heading phrase of either list occurs somewhere in the lower-cased text *)
HasHeading(lowered) ==
    \E i \in DOMAIN lowered :
        FirstMatch(lowered, i, required_keywords \o preferred_keywords) # 0

(* C14: JD fallback policy.  When neither section yields a skill, in       *)
(* particular when the text has no heading phrase, the required skills are *)
(* the skills extracted from the whole text and the preferred skills are   *)
(* empty; when a section yields a skill the sections' skills are kept.     *)
C14_Fallback ==
    call.op = "parse_text" =>
        LET lowered == text_lower(call.text)
            sections == split_sections(lowered)
            found == extract_skills(sections[1]) \cup extract_skills(sections[2])
        IN  /\ ~HasHeading(lowered) => found = {}
            /\ found = {} =>
                  /\ jd_data.required_skills = extract_skills(lowered)
                  /\ jd_data.preferred_skills = {}
            /\ found # {} =>
                  /\ jd_data.required_skills = extract_skills(sections[1])
                  /\ jd_data.preferred_skills = extract_skills(sections[2])

C14_Witness ==
    /\ call.op = "parse_text"
    /\ call.text = <<"Java", "and", "Docker", ".">>
    /\ ~HasHeading(text_lower(call.text))
    /\ jd_data.required_skills = {"java", "docker"}
    /\ jd_data.preferred_skills = {}

(* the exception the call in progress raised, "none" if it returned *)
Raised == IF "raised" \in DOMAIN call THEN call.raised ELSE "none"

(* the object a configuration input validly supplies: the object of a      *)
(* well-formed file that holds one, no key otherwise                       *)
Supplied(source) ==
    IF source.kind = "json" /\ IsObject(source.value)
    THEN source.value
    ELSE [key \in {} |-> 0]

SuppliedWeight(source, key) ==
    IF "weights" \in DOMAIN Supplied(source) /\ key \in DOMAIN Supplied(source).weights
    THEN Supplied(source).weights[key]
    ELSE DefaultWeights[key]

(* C15 as stated: configuration fallback.  For every configuration input   *)
(* (no path, an unreadable file, malformed JSON, well-formed JSON that is  *)
(* not an object or lacks a weight key or the tolerance) constructing the  *)
(* scorer and scoring complete without raising, and every value that was   *)
(* not validly supplied is the default (weights 0.50/0.25/0.15/0.10,       *)
(* tolerance 2, min_score 0.0).                                            *)
C15_ConfigFallback ==
    /\ call.op = "init" =>
          /\ Raised = "none"
          /\ \A key \in WeightKeys :
                key \in DOMAIN weights /\ weights[key] = SuppliedWeight(call.source, key)
          /\ Get(config, "experience_tolerance", 2) =
                Get(Supplied(call.source), "experience_tolerance", 2)
          /\ Get(config, "min_score", 0) = Get(Supplied(call.source), "min_score", 0)
    /\ call.op = "score_resume" => Raised = "none"

ScoreKeys ==
    {"total_score", "required_skills_score", "preferred_skills_score",
     "experience_score", "keyword_score"}

(* C16: scoring never fails.  No call of score_resume divides by zero,     *)
(* whatever the resume, the job requirement (empty sets and lists and a    *)
(* required experience of 0 included) and the integer tolerance; a scorer  *)
(* whose weights hold the four keys returns the complete breakdown, each   *)
(* reported score between 0.0 and 100.0.                                   *)
C16_ScoringNeverFails ==
    call.op = "score_resume" =>
        /\ Raised # "ZeroDivisionError"
        /\ WeightKeys \subseteq DOMAIN weights =>
              /\ Raised = "none"
              /\ DOMAIN call.ret =
                    ScoreKeys \cup {"matched_required_skills", "matched_preferred_skills",
                                    "missing_required_skills", "resume_experience",
                                    "required_experience"}
              /\ \A key \in ScoreKeys : call.ret[key] \in 0..10000
              /\ call.ret.resume_experience = call.resume_experience
              /\ call.ret.required_experience = Get(jd_data, "min_experience", 0)

C16_Witness ==
    /\ call.op = "score_resume"
    /\ Get(config, "experience_tolerance", 2) = -1
    /\ Get(jd_data, "min_experience", 0) = 5
    /\ call.resume_experience = 4
    /\ call.resume_skills = {}
    /\ call.resume_keywords = <<>>
    /\ Raised = "none"
    /\ call.ret.experience_score = 5600

(* the run read a directory of resume files and is past the loading step *)
LoadedDirectory ==
    /\ run.program # "none"
    /\ run.source.kind = "dir"
    /\ pc \in {"no_resumes", "score", "save", "done"}

(* the file names of the resumes in a list of loaded or scored entries *)
LoadedNames == {resumes[i].file_name : i \in DOMAIN resumes}
ScoredNames(scored) == {scored[i].resume.file_name : i \in DOMAIN scored}

(* text extraction fails: a supported file that cannot be read as what its *)
(* suffix says (a corrupt PDF or DOCX, an unreadable TXT)                  *)
ExtractionFails(file) ==
    lower(file.suffix) \in supported_formats /\ ~file.readable

(* C17 as stated: a resume whose text extraction fails is skipped.  Of a   *)
(* directory of resume files, a corrupt or unreadable PDF, DOCX or TXT     *)
(* file is not among the loaded resumes and is never scored or ranked,     *)
(* while every file that parses is loaded.                                 *)
C17_FailedExtractionSkipped ==
    LoadedDirectory =>
        \A k \in DOMAIN run.source.files :
            LET file == run.source.files[k]
            IN  /\ ExtractionFails(file) =>
                      /\ file.name \notin LoadedNames
                      /\ file.name \notin ScoredNames(scored_resumes)
                      /\ file.name \notin ScoredNames(ranked_resumes)
                /\ (/\ lower(file.suffix) \in supported_formats
                    /\ file.readable
                    /\ parse_file([type |-> "str", exists |-> TRUE, name |-> file.name,
                                   suffix |-> file.suffix, readable |-> TRUE,
                                   text |-> file.text], run.env).raised = "none")
                      => file.name \in LoadedNames

(* where a run can be; the outcomes are the places where it has ended *)
BeforeLoading == {"check_folder", "parse_jd", "load_resumes"}
EndedBeforeLoading == {"folder_error", "no_jd", "jd_error"}
Outcomes == EndedBeforeLoading \cup {"load_error", "no_resumes", "raised", "done"}

(* C18: the order of a run.  With no resume loaded the run is before the   *)
(* loading step or has ended, in 'no resumes' when loading returned        *)
(* nothing: no resume is scored, nothing is ranked and no result file is   *)
(* written.  A run whose job description does not parse ends in its own    *)
(* outcome with no resume loaded.  A result file is written only in a run  *)
(* that parsed the job description and loaded at least one resume, and an  *)
(* ended run takes no further step.                                        *)
C18_RunOrder ==
    run.program # "none" =>
        /\ resumes = <<>> =>
              /\ pc \in BeforeLoading \cup EndedBeforeLoading
                        \cup {"load_error", "no_resumes"}
              /\ scored_resumes = <<>>
              /\ ranked_resumes = <<>>
              /\ top_resumes = <<>>
              /\ output = NotWritten
        /\ pc = "no_resumes" <=>
              /\ resumes = <<>>
              /\ pc \notin BeforeLoading \cup EndedBeforeLoading \cup {"load_error"}
        /\ run.jd_file \in {MissingJD, UnreadableJD} =>
              /\ pc \in {"check_folder", "parse_jd", "folder_error", "no_jd", "jd_error"}
              /\ resumes = <<>>
        /\ pc = "jd_error" => jd_data = NoJD
        /\ output # NotWritten =>
              /\ pc = "done"
              /\ jd_data = jd_parse_file(run.jd_file).ret
              /\ resumes # <<>>
        /\ pc \in Outcomes => ~ENABLED NextRun

(* a folder of two files of which none loads *)
C18_Witness ==
    /\ pc = "no_resumes"
    /\ run.source.kind = "dir"
    /\ Len(run.source.files) = 2
    /\ jd_data # NoJD
    /\ output = NotWritten

(* what extraction and scoring give for one resume text on its own, with   *)
(* the scorer and the extractor as they were constructed                   *)
ScoredAlone(text, jd) ==
    LET resume_skills == extractor_extract_skills(default_taxonomy, text)
        resume_experience == extract_experience_years(text)
        resume_keywords == extractor_extract_keywords(default_taxonomy, text)
        cfg == load_config([kind |-> "none"])
    IN  {[score |-> score, skills |-> resume_skills, experience |-> resume_experience] :
            score \in score_returns(
                         score_locals(cfg, init_weights(cfg), resume_skills,
                                      resume_experience, resume_keywords, jd),
                         resume_skills, resume_experience)}

C19_WitnessReversed ==
    /\ pc = "score"
    /\ Len(scored_resumes) = 2
    /\ scored_resumes[1].resume.text = ResumeTextA
    /\ scored_resumes[2].resume.text = ResumeTextB

PathArgument(arg) == arg.type \in PathTypes
Supported(arg) == lower(arg.suffix) \in {".pdf", ".docx", ".doc", ".txt"}

(* the order of the argument checks of parse_file, and the type check of   *)
(* parse_jsonl and parse_directory; a raising call returns no record       *)
ValidationOrder ==
    /\ call.op = "parse_file" =>
          /\ ~PathArgument(call.file_path) => Raised = "TypeError"
          /\ (PathArgument(call.file_path) /\ ~call.file_path.exists) =>
                Raised = "FileNotFoundError"
          /\ (PathArgument(call.file_path) /\ call.file_path.exists
                 /\ ~Supported(call.file_path)) => Raised = "ValueError"
          /\ Raised # "none" => "ret" \notin DOMAIN call
    /\ call.op = "parse_jsonl" =>
          (~PathArgument(call.jsonl_path) => Raised = "TypeError")
    /\ call.op = "parse_directory" =>
          (~PathArgument(call.directory_path) => Raised = "TypeError")

(* the call returned the record of its file: the file's name and, for a    *)
(* file that can be read, its text                                         *)
ReturnsNameAndText ==
    /\ Raised = "none"
    /\ call.ret.file_name = call.file_path.name
    /\ call.file_path.readable => call.ret.text = Strip(call.file_path.text)

(* what extracting the file's text needs and the environment lacks *)
ExtractorUnavailable(arg, env) ==
    \/ lower(arg.suffix) = ".pdf" /\ ~env.pypdf2
    \/ lower(arg.suffix) = ".docx" /\ ~env.docx
    \/ lower(arg.suffix) = ".doc" /\ (env.soffice # "ok" \/ ~env.docx)

(* C20 as stated: parse_file raises TypeError for an argument that is      *)
(* neither str nor Path, otherwise FileNotFoundError for a missing path,   *)
(* otherwise ValueError for an unsupported extension, and returns no       *)
(* record then; parse_jsonl and parse_directory raise TypeError for a      *)
(* non-path argument; a str or Path naming an existing supported file is   *)
(* accepted and returns its file name and text.                            *)
C20_Original ==
    /\ ValidationOrder
    /\ (/\ call.op = "parse_file"
        /\ PathArgument(call.file_path)
        /\ call.file_path.exists
        /\ Supported(call.file_path)) => ReturnsNameAndText

(* C20: the same, except that an existing supported file whose extractor   *)
(* is unavailable (PyPDF2 or python-docx not installed, the LibreOffice    *)
(* conversion of a .doc missing or failing) raises RuntimeError and        *)
(* returns no record.                                                      *)
C20_ParseFileValidation ==
    /\ ValidationOrder
    /\ (/\ call.op = "parse_file"
        /\ PathArgument(call.file_path)
        /\ call.file_path.exists
        /\ Supported(call.file_path)) =>
          IF ExtractorUnavailable(call.file_path, call.env)
          THEN Raised = "RuntimeError" /\ "ret" \notin DOMAIN call
          ELSE ReturnsNameAndText

(* a missing file with an unsupported extension *)
C20_Witness ==
    /\ call.op = "parse_file"
    /\ call.file_path.type = "Path"
    /\ ~call.file_path.exists
    /\ call.file_path.suffix = ".xyz"
    /\ Raised = "FileNotFoundError"

(* C28: the experience score is non-decreasing in the resume's years.  For *)
(* a required experience above 0 and a tolerance of 0 or more, the score   *)
(* of a call is at least the score of every call with fewer years and the  *)
(* same requirement, also from below the tolerance band into it and from   *)
(* the band to the requirement.                                            *)
C28_ExperienceMonotone ==
    (/\ call.op = "experience_match"
     /\ call.required_exp > 0
     /\ Get(config, "experience_tolerance", 2) >= 0) =>
        \A fewer \in 0..call.resume_exp :
            RLeq(calculate_experience_match(config, fewer, call.required_exp), call.ret)

(* a resume inside the tolerance band, above one below the band *)
C28_Witness ==
    /\ call.op = "experience_match"
    /\ Get(config, "experience_tolerance", 2) = 2
    /\ call.required_exp = 6
    /\ call.resume_exp = 4
    /\ call.ret = Rat(8, 10)
    /\ calculate_experience_match(config, 3, 6) = Rat(35, 100)

(* C29: a resume with 0 years.  Its experience score is 0.0 only when the  *)
(* required experience exceeds the tolerance; for a required experience    *)
(* above 0 and within the tolerance it is in the tolerance band and gets   *)
(* at least 0.7.                                                           *)
C29_ZeroYears ==
    (call.op = "experience_match" /\ call.resume_exp = 0) =>
        LET tolerance == Get(config, "experience_tolerance", 2)
        IN  /\ call.ret = Zero => call.required_exp > tolerance
            /\ (0 < call.required_exp /\ call.required_exp <= tolerance) =>
                  /\ RLeq(Rat(7, 10), call.ret)
                  /\ call.ret =
                        RSub(One, RMul(Rat(call.required_exp, tolerance + 1), Rat(3, 10)))

(* 0 years against a requirement of 2 years with the default tolerance 2 *)
C29_Witness ==
    /\ call.op = "experience_match"
    /\ call.resume_exp = 0
    /\ call.required_exp = 2
    /\ Get(config, "experience_tolerance", 2) = 2
    /\ call.ret = Rat(8, 10)

(* C30: filtering and ranking commute.  Filtering by min_score, then       *)
(* sorting and truncating, as the run pipelines do, gives the list that    *)
(* sorting first and then filtering and truncating gives, in the same      *)
(* order, for every threshold and every n >= 0; the result holds entries   *)
(* of the input as they were, none of them twice.                          *)
C30_FilterRankCommute ==
    (call.op = "rank_and_filter" /\ call.top_n >= 0) =>
        /\ call.top_resumes =
              top_n_slice(run_filter(rank_resumes(call.scored), call.min_score), call.top_n)
        /\ \A i \in DOMAIN call.top_resumes :
              /\ \E k \in DOMAIN call.scored : call.top_resumes[i] = call.scored[k]
              /\ \A j \in DOMAIN call.top_resumes :
                    call.top_resumes[i] = call.top_resumes[j] => i = j

(* three resumes in rising order of score, one below the threshold, top 2 *)
C30_Witness ==
    /\ call.op = "rank_and_filter"
    /\ call.min_score = Some(6000)
    /\ call.top_n = 2
    /\ Len(call.scored) = 3
    /\ call.scored[1].score.total_score = 5429
    /\ call.scored[2].score.total_score = 7750
    /\ call.scored[3].score.total_score = 10000
    /\ call.top_resumes = <<call.scored[3], call.scored[2]>>

(* the total of the date ranges of a text from token i on, each range      *)
(* counted once: a range written MM/YYYY - ... or YYYY - ... adds its span *)
(* when 0 < span < 30                                                      *)
RECURSIVE RangeTotal(_, _)
RangeTotal(text, i) ==
    IF i > Len(text)
    THEN 0
    ELSE LET long == DateMatchEnd(text, i, "MM/YYYY")
             short == DateMatchEnd(text, i, "YYYY")
         IN  IF long # 0
             THEN MatchYears(text, i, long, "MM/YYYY") + RangeTotal(text, long)
             ELSE IF short # 0
                  THEN MatchYears(text, i, short, "YYYY") + RangeTotal(text, short)
                  ELSE RangeTotal(text, i + 1)

(* the values of the 'N years' phrases of a text with 0 < N < 50 *)
PhraseYears(text) ==
    {year \in UNION {FindYears(text_lower(text), 1, resume_experience_patterns[p]) :
                        p \in DOMAIN resume_experience_patterns} :
        0 < year /\ year < 50}

(* C23 as stated: extract_experience_years returns the maximum over the    *)
(* 'N years' phrase values with 0 < N < 50 and the one total of the date   *)
(* ranges, in which each date range of the text counts its span exactly    *)
(* once and only when 0 < span < 30; 0 when there is no candidate; always  *)
(* a non-negative integer.                                                 *)
C23_MaxOverStrategies ==
    call.op = "extract_experience_years" =>
        LET total == RangeTotal(call.text, 1)
            candidates == PhraseYears(call.text) \cup (IF total > 0 THEN {total} ELSE {})
        IN  /\ call.ret \in Nat
            /\ call.ret = IF candidates = {} THEN 0 ELSE Max(candidates)

(* the surface forms of a canonical skill, and the skills of the taxonomy *)
SurfaceForms(taxonomy, skill) ==
    UNION {{taxonomy[e].variations[v] : v \in DOMAIN taxonomy[e].variations} :
              e \in {d \in DOMAIN taxonomy : taxonomy[d].skill = skill}}
CanonicalSkills(taxonomy) == {taxonomy[e].skill : e \in DOMAIN taxonomy}

(* the mentions of a skill: the places of the text where one of its        *)
(* surface forms starts                                                    *)
Mentions(taxonomy, text, skill) ==
    {i \in DOMAIN text :
        \E form \in SurfaceForms(taxonomy, skill) : MatchesAt(text_lower(text), i, form)}

(* the keyword-list entries that are surface forms of a skill *)
EntriesOf(taxonomy, keywords, skill) ==
    {k \in DOMAIN keywords :
        \E form \in SurfaceForms(taxonomy, skill) : keywords[k] = Join(form)}

(* extract_skills holds a canonical skill when one of its surface forms    *)
(* occurs, and the skills of the keyword entries are extract_skills of the *)
(* same text                                                               *)
SkillsOfKeywords ==
    /\ call.op = "extract_skills" =>
          call.ret = {skill \in CanonicalSkills(skills_taxonomy) :
                         Mentions(skills_taxonomy, call.text, skill) # {}}
    /\ call.op = "extract_keywords" =>
          /\ {skill \in CanonicalSkills(skills_taxonomy) :
                  EntriesOf(skills_taxonomy, call.ret, skill) # {}}
                = extractor_extract_skills(skills_taxonomy, call.text)
          /\ \A k \in DOMAIN call.ret :
                \E skill \in CanonicalSkills(skills_taxonomy) :
                    k \in EntriesOf(skills_taxonomy, call.ret, skill)

MultiWordPhrases(text) ==
    {Join(text_lower(SubSeq(text, i, CapRunEnd(text, i)))) :
        i \in {k \in DOMAIN text :
                  /\ IsCapitalized(text[k])
                  /\ (k = 1 \/ ~IsCapitalized(text[k - 1]))
                  /\ CapRunEnd(text, k) > k}}

(* C25: the keywords of a parsed job description contain, in lower case,   *)
(* every capitalized multi-word phrase of the text other than the filtered *)
(* common words, and every version-tagged token of the text.               *)
C25_KeywordsOfJD ==
    call.op = "parse_text" =>
        /\ (MultiWordPhrases(call.text) \ CommonWords) \subseteq jd_data.keywords
        /\ FindVersions(text_lower(call.text), 1) \subseteq jd_data.keywords

(* the tokens of the blocks of one kind: a block starts after a heading    *)
(* 'required:' or 'preferred:' and ends before the next heading or at the  *)
(* end of the text                                                         *)
IsHeadingAt(text, i) ==
    i + 1 <= Len(text) /\ text[i] \in {"required", "preferred"} /\ text[i + 1] = ":"

RECURSIVE BlockText(_, _, _, _)
BlockText(text, i, current, kind) ==
    IF i > Len(text)
    THEN <<>>
    ELSE IF IsHeadingAt(text, i)
         THEN BlockText(text, i + 2, text[i], kind)
         ELSE (IF current = kind THEN <<text[i]>> ELSE <<>>)
              \o BlockText(text, i + 1, current, kind)

(* C27: for a job description made of 'Required:' and 'Preferred:' blocks  *)
(* in any order, several of them under the same heading included, every    *)
(* skill of a required block is in required_skills and every skill of a    *)
(* preferred block is in preferred_skills.                                 *)
C27_InterleavedBlocks ==
    call.op = "parse_text" =>
        LET lowered == text_lower(call.text)
        IN  /\ extract_skills(BlockText(lowered, 1, "none", "required"))
                    \subseteq jd_data.required_skills
            /\ extract_skills(BlockText(lowered, 1, "none", "preferred"))
                    \subseteq jd_data.preferred_skills

(* the surface forms of a text that both extractors recognise: variations  *)
(* of the taxonomy that occur in the text and that the skill patterns of   *)
(* the job description parser match                                        *)
CommonForms(taxonomy, text) ==
    {form \in UNION {SurfaceForms(taxonomy, skill) : skill \in CanonicalSkills(taxonomy)} :
        Occurs(text_lower(text), form) /\ extract_skills(form) # {}}

(* C26: for every surface form recognised by the skill patterns of the job *)
(* description parser and by the resume taxonomy, the canonical tag of the  *)
(* resume extractor is a tag the job description parser gives to the form,  *)
(* so every tag the job description parser gives to such a form of a text   *)
(* is matched by the skills extracted from the same text as a resume.       *)
C26_CanonicalTagsAgree ==
    call.op = "extract_skills" =>
        \A form \in CommonForms(skills_taxonomy, call.text) :
            /\ \A skill \in CanonicalSkills(skills_taxonomy) :
                  form \in SurfaceForms(skills_taxonomy, skill) => skill \in extract_skills(form)
            /\ extract_skills(form) \cap call.ret # {}

(* a call of parse_file that reached the .doc branch, and the file the     *)
(* conversion writes                                                       *)
DocCall ==
    /\ call.op = "parse_file"
    /\ PathArgument(call.file_path)
    /\ call.file_path.exists
    /\ lower(call.file_path.suffix) = ".doc"
ConvertedFile == [call.file_path EXCEPT !.suffix = ".docx"]

RECURSIVE ValidLines(_, _)
ValidLines(lines, i) ==
    IF i > Len(lines)
    THEN <<>>
    ELSE (IF lines[i].kind \in {"object", "not_object"} THEN <<i>> ELSE <<>>)
         \o ValidLines(lines, i + 1)

(* the positions of the files of a directory that have a supported suffix  *)
(* and whose parse_file does not raise                                     *)
ParsedFiles(files, env) ==
    {i \in DOMAIN files :
        /\ Supported(files[i])
        /\ parse_file([type |-> "str", exists |-> TRUE, name |-> files[i].name,
                       suffix |-> files[i].suffix, readable |-> files[i].readable,
                       text |-> files[i].text], env).raised = "none"}

(* C22: parse_directory returns exactly one record for each file with a    *)
(* supported suffix whose parse_file did not raise; parse_jsonl returns    *)
(* exactly one record, in line order, for each non-blank line that is      *)
(* well-formed JSON, with resume_id from ResumeID or RESUME_<line number>;  *)
(* the other files and lines are left out and stop nothing after them.      *)
C22_BatchLoading ==
    /\ call.op = "parse_directory" /\ Raised = "none" =>
          LET files == call.directory_path.files
              parsed == ParsedFiles(files, call.env)
          IN  /\ Len(call.ret) = Cardinality(parsed)
              /\ \A i \in parsed :
                    Cardinality({k \in DOMAIN call.ret :
                                    call.ret[k].file_name = files[i].name}) = 1
    /\ call.op = "parse_jsonl" /\ Raised = "none" /\ call.jsonl_path.readable =>
          LET lines == call.jsonl_path.lines
              valid == ValidLines(lines, 1)
          IN  /\ Len(call.ret) = Len(valid)
              /\ \A k \in DOMAIN valid :
                    lines[valid[k]].kind = "object" =>
                        call.ret[k].resume_id =
                            Get(lines[valid[k]].value, "ResumeID",
                                "RESUME_" \o ToString(valid[k]))

====
